---- MODULE Spec2Model ----
(***************************************************************************)
(* A model of the job-application session of Dream_Booster:                *)
(*   src/src/dream_booster_job_manager.py  (DreamBoosterJobManager)        *)
(*   src/src/dream_booster_easy_applier.py (DreamBoosterEasyApplier)       *)
(*   src/src/job.py                        (Job)                           *)
(*                                                                         *)
(* Python strings are modelled as sequences of one-character strings, so   *)
(* that lower(), strip(), split() and the substring test `in` are computed *)
(* and not assumed.  An outcome file is absent, a JSON array, or           *)
(* unparsable.  Operating-system errors of the file operations themselves  *)
(* (open, write) are not modelled: a write_to_file call completes.         *)
(***************************************************************************)
EXTENDS Integers, Sequences, FiniteSets, TLC

VARIABLES
    params,             \* what set_parameters stored on the manager
    seen_jobs,          \* self.seen_jobs
    files,              \* the three outcome files of output_file_directory
    job_list_elements,  \* the tiles apply_jobs was called with
    job_list,           \* the Job objects apply_jobs built from them
    idx,                \* position of the `for job in job_list` loop (1-based)
    pc,                 \* where apply_jobs stands
    attempt,            \* loop variable of job_apply's `for attempt in range(...)`
    cur,                \* history of the job handled last (observation only)
    wlog,               \* every completed write_to_file call: <<job index, file>>
    call,               \* the last direct call of a pure function (SpecPure)
    all_data,           \* self.all_data of the easy applier: the stored Q/A
    asked,              \* every _get_answer_for_question call so far, in order
    positions,          \* self.positions
    locations,          \* self.locations
    page_jobs,          \* the tiles a results page of the site shows
    search,             \* where start_applying stands and what it has done
    new_job,            \* one Job object, from its construction on (SpecJob)
    wizard,             \* the pages of the application form the site shows
    fill,               \* where _fill_application_form stands (SpecFill)
    bot                 \* the facade: its state flags and its last operation

jobVars == <<params, seen_jobs, files, job_list_elements, job_list, idx, pc,
             attempt, cur, wlog>>

formVars == <<all_data, asked>>

searchVars == <<positions, locations, page_jobs, search>>

fillVars == <<wizard, fill>>

vars == <<jobVars, call, formVars, searchVars, new_job, fillVars, bot>>

----------------------------------------------------------------------------
(* Bounds of the model *)

\* longest list of tiles handed to apply_jobs
MaxJobs == 2

\* longest title / keyword / blacklist entry enumerated by SpecPure
MaxStrLen == 3

----------------------------------------------------------------------------
(* Strings *)

UpperCase == <<"A", "B", "C", "D", "E", "F", "G", "H", "I", "J", "K", "L", "M",
               "N", "O", "P", "Q", "R", "S", "T", "U", "V", "W", "X", "Y", "Z">>

LowerCase == <<"a", "b", "c", "d", "e", "f", "g", "h", "i", "j", "k", "l", "m",
               "n", "o", "p", "q", "r", "s", "t", "u", "v", "w", "x", "y", "z">>

\* str.lower() on one character
LowerChar(c) ==
    IF \E i \in 1..26 : UpperCase[i] = c
    THEN LowerCase[CHOOSE i \in 1..26 : UpperCase[i] = c]
    ELSE c

\* str.lower()
lower(s) == [i \in 1..Len(s) |-> LowerChar(s[i])]

\* str.strip(): drops leading and trailing whitespace
RECURSIVE lstrip(_)
lstrip(s) ==
    IF s # <<>> /\ Head(s) = " " THEN lstrip(Tail(s)) ELSE s

RECURSIVE rstrip(_)
rstrip(s) ==
    IF s # <<>> /\ s[Len(s)] = " " THEN rstrip(SubSeq(s, 1, Len(s) - 1)) ELSE s

strip(s) == rstrip(lstrip(s))

\* str.split(sep) for a one-character separator: empty pieces are kept
RECURSIVE split(_, _)
split(s, sep) ==
    IF \E i \in 1..Len(s) : s[i] = sep
    THEN LET i == CHOOSE k \in 1..Len(s) :
                      s[k] = sep /\ \A m \in 1..(k - 1) : s[m] # sep
         IN  <<SubSeq(s, 1, i - 1)>> \o split(SubSeq(s, i + 1, Len(s)), sep)
    ELSE <<s>>

\* the substring test `sub in s`
contains(sub, s) ==
    \E i \in 0..(Len(s) - Len(sub)) : SubSeq(s, i + 1, i + Len(sub)) = sub

\* the list membership test `x in lst`
member(x, lst) == \E i \in 1..Len(lst) : lst[i] = x

----------------------------------------------------------------------------
(* Text used by the session's inputs *)

s_lead == <<"l", "e", "a", "d">>
s_Lead_Engineer == <<"L", "e", "a", "d", " ", "E", "n", "g", "i", "n", "e", "e", "r">>
s_Team_Leader_Wanted == <<"T", "e", "a", "m", " ", "L", "e", "a", "d", "e", "r", " ",
                          "W", "a", "n", "t", "e", "d">>
s_team_leader == <<"t", "e", "a", "m", " ", "l", "e", "a", "d", "e", "r">>
s_Python_Dev == <<"P", "y", "t", "h", "o", "n", " ", "D", "e", "v">>
s_python == <<"p", "y", "t", "h", "o", "n">>
s_Python == <<"P", "y", "t", "h", "o", "n">>
s_Acme == <<"A", "c", "m", "e">>
s_ACME == <<"A", "C", "M", "E">>
s_Beta == <<"B", "e", "t", "a">>
s_beta_padded == <<" ", "b", "e", "t", "a", " ">>
s_NY == <<"N", "Y">>
s_Easy_Apply == <<"E", "a", "s", "y", " ", "A", "p", "p", "l", "y">>
s_Applied == <<"A", "p", "p", "l", "i", "e", "d">>
s_Apply == <<"A", "p", "p", "l", "y">>
s_Continue == <<"C", "o", "n", "t", "i", "n", "u", "e">>
s_j1 == <<"j", "1">>
s_j1q == <<"j", "1", "?", "a">>
s_j2 == <<"j", "2">>
s_j3 == <<"j", "3">>
s_desc == <<"p", "y", "t", "h", "o", "n", " ", "r", "o", "l", "e">>

\* a DOM element the tile does not have (find_element raises NoSuchElementException)
NoSuchElement == <<"NoSuchElementException">>

----------------------------------------------------------------------------
(* Job (src/src/job.py) *)

\* a validation that leaves apply_method out
validate_non_empty_fields_four(title, company, location, link, apply_method) ==
    /\ title # <<>>
    /\ company # <<>>
    /\ location # <<>>
    /\ link # <<>>

\* Job._validate_non_empty_fields: TRUE when the constructor does not raise
validate_non_empty_fields(title, company, location, link, apply_method) ==
    /\ title # <<>>
    /\ company # <<>>
    /\ location # <<>>
    /\ link # <<>>
    /\ apply_method # <<>>

\* a constructor that takes the title for the description
Job_described(title, company, location, link, apply_method) ==
    [title |-> title, company |-> company, location |-> location, link |-> link,
     apply_method |-> apply_method, description |-> title,
     summarize_job_description |-> <<>>, pdf_path |-> <<>>,
     recruiter_link |-> <<>>]

\* the dataclass after __init__: the optional fields take their defaults
Job(title, company, location, link, apply_method) ==
    [title |-> title, company |-> company, location |-> location, link |-> link,
     apply_method |-> apply_method, description |-> <<>>,
     summarize_job_description |-> <<>>, pdf_path |-> <<>>,
     recruiter_link |-> <<>>]

set_summarize_job_description(job, summarize_job_description) ==
    [job EXCEPT !.summarize_job_description = summarize_job_description]

set_job_description(job, description) == [job EXCEPT !.description = description]

set_recruiter_link(job, recruiter_link) == [job EXCEPT !.recruiter_link = recruiter_link]

----------------------------------------------------------------------------
(* Tiles: what the result page shows for one listing.  page_description and *)
(* page_recruiter are what the job's own page shows once it is opened.      *)

Tile(title, href, company, location, apply_method) ==
    [title |-> title, href |-> href, company |-> company, location |-> location,
     apply_method |-> apply_method, page_description |-> s_desc,
     page_recruiter |-> <<>>]

Tiles ==
    { Tile(s_Lead_Engineer, s_j1q, s_Acme, s_NY, s_Easy_Apply),
      Tile(s_Team_Leader_Wanted, s_j2, s_ACME, s_NY, s_Easy_Apply),
      Tile(s_Python_Dev, s_j1, s_Beta, s_NY, s_Easy_Apply),
      Tile(s_Python_Dev, s_j3, s_Acme, s_NY, NoSuchElement),
      Tile(NoSuchElement, s_j3, s_Beta, s_NY, s_Easy_Apply) }

\* an extraction that takes a tile without an apply method for an Easy Apply one
extract_job_information_from_tile_easy(job_tile) ==
    LET first  == IF job_tile.title = NoSuchElement
                  THEN [job_title |-> <<>>, link |-> <<>>, company |-> <<>>]
                  ELSE [job_title |-> job_tile.title,
                        link      |-> split(job_tile.href, "?")[1],
                        company   |-> IF job_tile.company = NoSuchElement
                                      THEN <<>> ELSE job_tile.company]
        job_location == IF job_tile.location = NoSuchElement
                        THEN <<>> ELSE job_tile.location
        apply_method == IF job_tile.apply_method = NoSuchElement
                        THEN s_Easy_Apply ELSE job_tile.apply_method
    IN  <<first.job_title, first.company, job_location, first.link, apply_method>>

\* extract_job_information_from_tile: <<title, company, location, link, apply_method>>
extract_job_information_from_tile(job_tile) ==
    LET first  == IF job_tile.title = NoSuchElement
                  THEN [job_title |-> <<>>, link |-> <<>>, company |-> <<>>]
                  ELSE [job_title |-> job_tile.title,
                        link      |-> split(job_tile.href, "?")[1],
                        company   |-> IF job_tile.company = NoSuchElement
                                      THEN <<>> ELSE job_tile.company]
        job_location == IF job_tile.location = NoSuchElement
                        THEN <<>> ELSE job_tile.location
        apply_method == IF job_tile.apply_method = NoSuchElement
                        THEN s_Applied ELSE job_tile.apply_method
    IN  <<first.job_title, first.company, job_location, first.link, apply_method>>

----------------------------------------------------------------------------
(* Outcome files *)

FileNames == {"success", "failed", "skipped"}

AbsentFile == [state |-> "absent", data |-> <<>>]

CorruptFile == [state |-> "corrupt", data |-> <<>>]

ListFile(records) == [state |-> "list", data |-> records]

\* the dictionary write_to_file dumps
OutcomeRecord(job) ==
    [company |-> job.company, job_title |-> job.title, link |-> job.link,
     job_recruiter |-> job.recruiter_link, job_location |-> job.location]

\* json.load with the JSONDecodeError handler: an unparsable file reads as []
load_existing(file) == IF file.state = "list" THEN file.data ELSE <<>>

\* write_to_file: the files afterwards
write_to_file(fs, job, file_name) ==
    IF fs[file_name].state = "absent"
    THEN [fs EXCEPT ![file_name] = ListFile(<<OutcomeRecord(job)>>)]
    ELSE [fs EXCEPT ![file_name] =
              ListFile(Append(load_existing(fs[file_name]), OutcomeRecord(job)))]

----------------------------------------------------------------------------
(* Eligibility filter *)

\* a title blacklist that matches substrings of the title
title_blacklisted_substring(job_title, title_blacklist) ==
    \E i \in 1..Len(title_blacklist) : contains(title_blacklist[i], lower(job_title))

\* is_blacklisted, the title part
title_blacklisted(job_title, title_blacklist) ==
    LET job_title_words == split(lower(job_title), " ")
    IN  \E i \in 1..Len(title_blacklist) : member(title_blacklist[i], job_title_words)

\* a company blacklist that matches a company name containing an entry
company_blacklisted_contains(company, company_blacklist) ==
    \E i \in 1..Len(company_blacklist) :
        contains(lower(strip(company_blacklist[i])), lower(strip(company)))

\* is_blacklisted, the company part
company_blacklisted(company, company_blacklist) ==
    \E i \in 1..Len(company_blacklist) :
        lower(strip(company_blacklist[i])) = lower(strip(company))

is_blacklisted(job_title, company, link, p, seen) ==
    LET link_seen == member(link, seen)
    IN  \/ title_blacklisted(job_title, p.title_blacklist)
        \/ company_blacklisted(company, p.company_blacklist)
        \/ link_seen

is_already_applied_to_job(job_title, company, link, seen) == member(link, seen)

\* a company check that compares the names as written
is_already_applied_to_company_exact(company, p, fs) ==
    IF ~p.apply_once_at_company
    THEN FALSE
    ELSE /\ fs["success"].state # "absent"
         /\ LET existing_data == load_existing(fs["success"])
            IN  \E i \in 1..Len(existing_data) : existing_data[i].company = company

\* a company check that also reads the log of failed applications
is_already_applied_to_company_any_log(company, p, fs) ==
    IF ~p.apply_once_at_company
    THEN FALSE
    ELSE \E n \in {"success", "failed"} :
             /\ fs[n].state # "absent"
             /\ \E i \in 1..Len(load_existing(fs[n])) :
                    lower(strip(load_existing(fs[n])[i].company))
                        = lower(strip(company))

is_already_applied_to_company(company, p, fs) ==
    IF ~p.apply_once_at_company
    THEN FALSE
    ELSE /\ fs["success"].state # "absent"
         /\ LET existing_data == load_existing(fs["success"])
            IN  \E i \in 1..Len(existing_data) :
                    lower(strip(existing_data[i].company)) = lower(strip(company))

\* the sum of matches_job_criteria: one for every keyword of the list found
RECURSIVE keyword_hits(_, _)
keyword_hits(keywords, job) ==
    IF keywords = <<>>
    THEN 0
    ELSE (IF \/ contains(lower(Head(keywords)), lower(job.title))
             \/ contains(lower(Head(keywords)), lower(job.description))
          THEN 1 ELSE 0) + keyword_hits(Tail(keywords), job)

\* a keyword check that wants the score to exceed the threshold
matches_job_criteria_strict(job, p) ==
    IF Len(p.keywords) = 0
    THEN [raised |-> TRUE, value |-> FALSE]
    ELSE [raised |-> FALSE,
          value  |-> keyword_hits(p.keywords, job) * 100
                         > p.match_threshold * Len(p.keywords)]

\* matches_job_criteria: match_threshold is kept in hundredths, so
\* hits / len >= threshold reads hits * 100 >= threshold * len.
\* raised: the division by len(self.keywords) = 0 (ZeroDivisionError)
matches_job_criteria(job, p) ==
    IF Len(p.keywords) = 0
    THEN [raised |-> TRUE, value |-> FALSE]
    ELSE [raised |-> FALSE,
          value  |-> keyword_hits(p.keywords, job) * 100
                         >= p.match_threshold * Len(p.keywords)]

\* a filter that forgets the record when the keyword check fails
is_job_suitable_unrecorded(job, p, seen, fs) ==
    IF \/ is_blacklisted(job.title, job.company, job.link, p, seen)
       \/ is_already_applied_to_job(job.title, job.company, job.link, seen)
       \/ is_already_applied_to_company(job.company, p, fs)
    THEN [raised |-> FALSE, ret |-> FALSE,
          files |-> write_to_file(fs, job, "skipped"), wrote |-> <<"skipped">>]
    ELSE IF matches_job_criteria(job, p).raised
    THEN [raised |-> TRUE, ret |-> FALSE, files |-> fs, wrote |-> <<>>]
    ELSE [raised |-> FALSE, ret |-> matches_job_criteria(job, p).value,
          files |-> fs, wrote |-> <<>>]

\* the logs is_already_applied_to_company opens, in order
company_check_reads(p, fs) ==
    IF p.apply_once_at_company /\ fs["success"].state # "absent"
    THEN <<"success">>
    ELSE <<>>

\* a filter that evaluates its four checks before it looks at any result
is_job_suitable_eager(job, p, seen, fs) ==
    LET checks == <<"is_blacklisted", "is_already_applied_to_job",
                    "is_already_applied_to_company", "matches_job_criteria">>
        reads  == company_check_reads(p, fs)
    IN  IF matches_job_criteria(job, p).raised
        THEN [raised |-> TRUE, ret |-> FALSE, files |-> fs, wrote |-> <<>>,
              checks |-> checks, reads |-> reads]
        ELSE IF \/ is_blacklisted(job.title, job.company, job.link, p, seen)
                \/ is_already_applied_to_job(job.title, job.company, job.link, seen)
                \/ is_already_applied_to_company(job.company, p, fs)
                \/ ~matches_job_criteria(job, p).value
        THEN [raised |-> FALSE, ret |-> FALSE,
              files |-> write_to_file(fs, job, "skipped"), wrote |-> <<"skipped">>,
              checks |-> checks, reads |-> reads]
        ELSE [raised |-> FALSE, ret |-> TRUE, files |-> fs, wrote |-> <<>>,
              checks |-> checks, reads |-> reads]

\* is_job_suitable: the returned boolean (or the exception), the files
\* afterwards, the files written, in order, the checks called, in order, and
\* the logs read
is_job_suitable(job, p, seen, fs) ==
    IF is_blacklisted(job.title, job.company, job.link, p, seen)
    THEN [raised |-> FALSE, ret |-> FALSE,
          files |-> write_to_file(fs, job, "skipped"), wrote |-> <<"skipped">>,
          checks |-> <<"is_blacklisted">>, reads |-> <<>>]
    ELSE IF is_already_applied_to_job(job.title, job.company, job.link, seen)
    THEN [raised |-> FALSE, ret |-> FALSE,
          files |-> write_to_file(fs, job, "skipped"), wrote |-> <<"skipped">>,
          checks |-> <<"is_blacklisted", "is_already_applied_to_job">>,
          reads |-> <<>>]
    ELSE IF is_already_applied_to_company(job.company, p, fs)
    THEN [raised |-> FALSE, ret |-> FALSE,
          files |-> write_to_file(fs, job, "skipped"), wrote |-> <<"skipped">>,
          checks |-> <<"is_blacklisted", "is_already_applied_to_job",
                       "is_already_applied_to_company">>,
          reads |-> company_check_reads(p, fs)]
    ELSE IF matches_job_criteria(job, p).raised
    THEN [raised |-> TRUE, ret |-> FALSE, files |-> fs, wrote |-> <<>>,
          checks |-> <<"is_blacklisted", "is_already_applied_to_job",
                       "is_already_applied_to_company", "matches_job_criteria">>,
          reads |-> company_check_reads(p, fs)]
    ELSE IF ~matches_job_criteria(job, p).value
    THEN [raised |-> FALSE, ret |-> FALSE,
          files |-> write_to_file(fs, job, "skipped"), wrote |-> <<"skipped">>,
          checks |-> <<"is_blacklisted", "is_already_applied_to_job",
                       "is_already_applied_to_company", "matches_job_criteria">>,
          reads |-> company_check_reads(p, fs)]
    ELSE [raised |-> FALSE, ret |-> TRUE, files |-> fs, wrote |-> <<>>,
          checks |-> <<"is_blacklisted", "is_already_applied_to_job",
                       "is_already_applied_to_company", "matches_job_criteria">>,
          reads |-> company_check_reads(p, fs)]

----------------------------------------------------------------------------
(* Easy applier *)

\* self.max_retries
max_retries == 3

\* Select.select_by_visible_text on a single select: the first option that
\* shows the text becomes the selected one
select_by_visible_text(options, selected, text) ==
    IF \E i \in 1..Len(options) : options[i] = text
    THEN CHOOSE i \in 1..Len(options) :
             options[i] = text /\ \A m \in 1..(i - 1) : options[m] # text
    ELSE selected

\* _handle_dropdown_fields with random.choice(options[1:]) taking the option
\* at position choice (positions count from 1, so options[1:] is 2..Len):
\* the position selected afterwards
handle_dropdown_fields(options, selected, choice) ==
    IF Len(options) > 1
    THEN select_by_visible_text(options, selected, options[choice])
    ELSE selected

\* a lookup that compares the questions as they are written
get_answer_for_question_exact(question, data, gpt_answer) ==
    IF \E i \in 1..Len(data) : data[i].question = question
    THEN LET i == CHOOSE n \in 1..Len(data) :
                      /\ data[n].question = question
                      /\ \A m \in 1..(n - 1) : data[m].question # question
         IN  [answer |-> data[i].answer, answerer_called |-> FALSE, all_data |-> data]
    ELSE [answer |-> gpt_answer, answerer_called |-> TRUE, all_data |-> data]

\* a lookup that keeps the answer of the answerer in the store
get_answer_for_question_learning(question, data, gpt_answer) ==
    IF \E i \in 1..Len(data) : lower(data[i].question) = lower(question)
    THEN LET i == CHOOSE n \in 1..Len(data) :
                      /\ lower(data[n].question) = lower(question)
                      /\ \A m \in 1..(n - 1) :
                             lower(data[m].question) # lower(question)
         IN  [answer |-> data[i].answer, answerer_called |-> FALSE, all_data |-> data]
    ELSE [answer |-> gpt_answer, answerer_called |-> TRUE,
          all_data |-> Append(data, [question |-> question, answer |-> gpt_answer])]

\* _get_answer_for_question: the answer returned, whether
\* gpt_answerer.answer_question was called (gpt_answer is what it returns), and
\* self.all_data afterwards
get_answer_for_question(question, data, gpt_answer) ==
    IF \E i \in 1..Len(data) : lower(data[i].question) = lower(question)
    THEN LET i == CHOOSE n \in 1..Len(data) :
                      /\ lower(data[n].question) = lower(question)
                      /\ \A m \in 1..(n - 1) :
                             lower(data[m].question) # lower(question)
         IN  [answer |-> data[i].answer, answerer_called |-> FALSE, all_data |-> data]
    ELSE [answer |-> gpt_answer, answerer_called |-> TRUE, all_data |-> data]

\* search_methods of _find_easy_apply_button, by what they look at
search_methods == <<"class", "aria_label", "text">>

\* the passes of `while attempt < 2`
Passes == 1..2

\* the places where _find_easy_apply_button calls check_for_premium_redirect:
\* before and after the search methods of each pass
PremiumChecks == 1..4

\* the first search method that gives a visible, clickable element on the
\* page as it is in that pass; 0 when none does
first_method(page, pass) ==
    IF \E m \in 1..Len(search_methods) : page[pass][m]
    THEN CHOOSE m \in 1..Len(search_methods) :
             page[pass][m] /\ \A n \in 1..(m - 1) : ~page[pass][n]
    ELSE 0

\* what one pass does: the methods tried, and the one that returned
find_pass(page, pass) ==
    IF first_method(page, pass) = 0
    THEN [tried |-> search_methods, found |-> 0]
    ELSE [tried |-> SubSeq(search_methods, 1, first_method(page, pass)),
          found |-> first_method(page, pass)]

\* a button search that reloads the page after the second pass as well
find_easy_apply_button_reloading(page, premium_at) ==
    LET one == find_pass(page, 1)
        two == find_pass(page, 2)
    IN  IF premium_at = 1
        THEN [ret |-> <<>>, error |-> "premium", events |-> <<>>]
        ELSE IF one.found # 0
        THEN [ret |-> <<1, one.found>>, error |-> "none", events |-> one.tried]
        ELSE IF premium_at = 2
        THEN [ret |-> <<>>, error |-> "premium", events |-> one.tried]
        ELSE IF premium_at = 3
        THEN [ret |-> <<>>, error |-> "premium",
              events |-> one.tried \o <<"refresh">>]
        ELSE IF two.found # 0
        THEN [ret |-> <<2, two.found>>, error |-> "none",
              events |-> one.tried \o <<"refresh">> \o two.tried]
        ELSE IF premium_at = 4
        THEN [ret |-> <<>>, error |-> "premium",
              events |-> one.tried \o <<"refresh">> \o two.tried]
        ELSE [ret |-> <<>>, error |-> "no_button",
              events |-> one.tried \o <<"refresh">> \o two.tried
                             \o <<"refresh", "page_source">>]

\* _find_easy_apply_button on a page where page[pass][m] tells whether
\* search method m gives a visible, clickable element in that pass, the
\* premium check number premium_at raising (0: none raises): the element
\* returned, as <<pass, method>>, the exception, and what was done, in order
find_easy_apply_button(page, premium_at) ==
    LET one == find_pass(page, 1)
        two == find_pass(page, 2)
    IN  IF premium_at = 1
        THEN [ret |-> <<>>, error |-> "premium", events |-> <<>>]
        ELSE IF one.found # 0
        THEN [ret |-> <<1, one.found>>, error |-> "none", events |-> one.tried]
        ELSE IF premium_at = 2
        THEN [ret |-> <<>>, error |-> "premium", events |-> one.tried]
        ELSE IF premium_at = 3
        THEN [ret |-> <<>>, error |-> "premium",
              events |-> one.tried \o <<"refresh">>]
        ELSE IF two.found # 0
        THEN [ret |-> <<2, two.found>>, error |-> "none",
              events |-> one.tried \o <<"refresh">> \o two.tried]
        ELSE IF premium_at = 4
        THEN [ret |-> <<>>, error |-> "premium",
              events |-> one.tried \o <<"refresh">> \o two.tried]
        ELSE [ret |-> <<>>, error |-> "no_button",
              events |-> one.tried \o <<"refresh">> \o two.tried
                             \o <<"page_source">>]

\* the kinds of input a form section may hold
ChildKinds == {"file_input", "select", "text_input", "textarea", "radio_input"}

\* the kinds find_elements(By.TAG_NAME, 'input') finds
InputTags == {"file_input", "text_input", "radio_input"}

\* _is_upload_field: 'upload' in element.text.lower()
is_upload_field(section) == section.text_says_upload

\* _is_dropdown_field
is_dropdown_field(section) == "select" \in section.kinds

\* _is_text_field
is_text_field(section) ==
    section.kinds \cap InputTags # {} \/ "textarea" \in section.kinds

\* _is_radio_field
is_radio_field(section) == "radio_input" \in section.kinds

\* _process_form_element with _fill_additional_questions: the filler that is
\* called for the section, "none" when none is. A section without a label
\* makes find_element raise, which line 377 catches.
process_form_element(section) ==
    IF is_upload_field(section) THEN "handle_upload_fields"
    ELSE IF ~section.has_label THEN "none"
    ELSE IF is_dropdown_field(section) THEN "handle_dropdown_fields"
    ELSE IF is_text_field(section) THEN "handle_text_fields"
    ELSE IF is_radio_field(section) THEN "handle_radio_fields"
    ELSE "none"

\* _handle_upload_fields on a section: find_element raises without a file
\* input, send_keys is called only with a resume path and may raise
handle_upload_fields(section, has_resume) ==
    IF "file_input" \notin section.kinds THEN "raised"
    ELSE IF ~has_resume THEN "skipped"
    ELSE IF section.filler_ok THEN "filled"
    ELSE "raised"

\* the body of one of the three question fillers on a section;
\* _handle_text_fields looks for an input first (line 401) and raises when
\* there is none, so that its `or` is never reached
handle_question(section, filler) ==
    IF filler = "handle_text_fields" /\ section.kinds \cap InputTags = {}
    THEN "raised"
    ELSE IF section.filler_ok THEN "filled"
    ELSE "raised"

\* _process_form_element on one section: the filler called and how the call
\* ends: "filled", "skipped" (nothing to do, a warning), "caught" (an exception
\* that _fill_additional_questions catches) or "raised" (an exception that
\* leaves _process_form_element)
process_section(section, has_resume) ==
    LET filler == process_form_element(section)
    IN  IF is_upload_field(section)
        THEN [filler |-> filler, outcome |-> handle_upload_fields(section, has_resume)]
        ELSE IF ~section.has_label THEN [filler |-> "none", outcome |-> "caught"]
        ELSE IF filler = "none" THEN [filler |-> "none", outcome |-> "skipped"]
        ELSE [filler |-> filler,
              outcome |-> IF handle_question(section, filler) = "raised"
                          THEN "caught" ELSE "filled"]

\* the sections of the step that the loop of fill_up reaches: all of them
\* up to the first whose processing raises
reached(sections, has_resume) ==
    {i \in 1..Len(sections) :
        \A j \in 1..(i - 1) :
            process_section(sections[j], has_resume).outcome # "raised"}

\* fill_up: the sections processed, in order, and whether it raises. The
\* whole body is in one try (lines 333-341): a missing form content or an
\* exception of a section ends the loop and is logged.
fill_up(content_found, sections, has_resume) ==
    [processed |-> IF content_found
                   THEN [i \in reached(sections, has_resume) |->
                            process_section(sections[i], has_resume)]
                   ELSE <<>>,
     raised |-> FALSE]

s_Next == <<"N", "e", "x", "t">>

s_Submit_application ==
    <<"S", "u", "b", "m", "i", "t", " ", "a", "p", "p", "l", "i", "c", "a", "t",
      "i", "o", "n">>

s_submit_application ==
    <<"s", "u", "b", "m", "i", "t", " ", "a", "p", "p", "l", "i", "c", "a", "t",
      "i", "o", "n">>

NoError == [kind |-> "none", texts |-> <<>>]

\* a step that reports the first error indicator only
next_or_submit_first_error(page) ==
    IF page.button_text = NoSuchElement
    THEN [ret |-> FALSE, raised |-> TRUE, events |-> <<"find_element">>,
          error |-> [kind |-> "NoSuchElementException", texts |-> <<>>]]
    ELSE IF contains(s_submit_application, lower(page.button_text))
    THEN [ret |-> page.click_ok, raised |-> ~page.click_ok,
          events |-> <<"find_element", "unfollow_company", "click">>,
          error |-> IF page.click_ok THEN NoError
                    ELSE [kind |-> "click", texts |-> <<>>]]
    ELSE IF ~page.click_ok
    THEN [ret |-> FALSE, raised |-> TRUE, events |-> <<"find_element", "click">>,
          error |-> [kind |-> "click", texts |-> <<>>]]
    ELSE IF page.errors # <<>>
    THEN [ret |-> FALSE, raised |-> TRUE,
          events |-> <<"find_element", "click", "check_for_errors">>,
          error |-> [kind |-> "form_errors", texts |-> <<Head(page.errors)>>]]
    ELSE [ret |-> FALSE, raised |-> FALSE,
          events |-> <<"find_element", "click", "check_for_errors">>,
          error |-> NoError]

\* a step that gives up when the follow-company toggle cannot be deselected
next_or_submit_strict_unfollow(page) ==
    IF page.button_text = NoSuchElement
    THEN [ret |-> FALSE, raised |-> TRUE, events |-> <<"find_element">>,
          error |-> [kind |-> "NoSuchElementException", texts |-> <<>>]]
    ELSE IF contains(s_submit_application, lower(page.button_text))
    THEN IF ~page.unfollow_ok
         THEN [ret |-> FALSE, raised |-> TRUE,
               events |-> <<"find_element", "unfollow_company">>,
               error |-> [kind |-> "unfollow", texts |-> <<>>]]
         ELSE [ret |-> page.click_ok, raised |-> ~page.click_ok,
               events |-> <<"find_element", "unfollow_company", "click">>,
               error |-> IF page.click_ok THEN NoError
                         ELSE [kind |-> "click", texts |-> <<>>]]
    ELSE IF ~page.click_ok
    THEN [ret |-> FALSE, raised |-> TRUE, events |-> <<"find_element", "click">>,
          error |-> [kind |-> "click", texts |-> <<>>]]
    ELSE IF page.errors # <<>>
    THEN [ret |-> FALSE, raised |-> TRUE,
          events |-> <<"find_element", "click", "check_for_errors">>,
          error |-> [kind |-> "form_errors", texts |-> page.errors]]
    ELSE [ret |-> FALSE, raised |-> FALSE,
          events |-> <<"find_element", "click", "check_for_errors">>,
          error |-> NoError]

\* _next_or_submit with _unfollow_company and _check_for_errors, on a page
\* of the form: whether it returns True (ret; it returns None otherwise),
\* whether it raises, what it does, in order, and the exception.
\* _unfollow_company catches its own exceptions (lines 303-309), so
\* page.unfollow_ok changes nothing here.
next_or_submit(page) ==
    IF page.button_text = NoSuchElement
    THEN [ret |-> FALSE, raised |-> TRUE, events |-> <<"find_element">>,
          error |-> [kind |-> "NoSuchElementException", texts |-> <<>>]]
    ELSE IF contains(s_submit_application, lower(page.button_text))
    THEN [ret |-> page.click_ok, raised |-> ~page.click_ok,
          events |-> <<"find_element", "unfollow_company", "click">>,
          error |-> IF page.click_ok THEN NoError
                    ELSE [kind |-> "click", texts |-> <<>>]]
    ELSE IF ~page.click_ok
    THEN [ret |-> FALSE, raised |-> TRUE, events |-> <<"find_element", "click">>,
          error |-> [kind |-> "click", texts |-> <<>>]]
    ELSE IF page.errors # <<>>
    THEN [ret |-> FALSE, raised |-> TRUE,
          events |-> <<"find_element", "click", "check_for_errors">>,
          error |-> [kind |-> "form_errors", texts |-> page.errors]]
    ELSE [ret |-> FALSE, raised |-> FALSE,
          events |-> <<"find_element", "click", "check_for_errors">>,
          error |-> NoError]

\* how an interaction with an element of the page may go
Interactions == {"ok", "not_found", "click_fails"}

\* _discard_application: the interactions it attempts, in order, and whether
\* it raises. Both interactions are inside one try block, so an exception of
\* the first goes to the handler of line 327 past the second.
discard_application(dismiss, confirm) ==
    IF dismiss # "ok"
    THEN [attempted |-> <<"dismiss">>, raised |-> FALSE]
    ELSE [attempted |-> <<"dismiss", "confirm">>, raised |-> FALSE]

\* max_attempts, the default of check_for_premium_redirect
max_attempts == 3

\* what driver.current_url shows at each read of one check_for_premium_redirect
\* call, in order: TRUE for a premium page. The call stops reading at the
\* first page that is not a premium page, so the reads are told apart by the
\* number of premium pages they begin with.
PageReads ==
    { [i \in 1..(max_attempts + 1) |-> i <= run] : run \in 0..(max_attempts + 1) }

\* a premium check that gives up without an exception
check_for_premium_redirect_swallowed(urls) ==
    LET RECURSIVE loop(_)
        loop(attempts) ==
            IF urls[attempts + 1] /\ attempts < max_attempts
            THEN loop(attempts + 1)
            ELSE [navigations |-> attempts, premium |-> urls[attempts + 1],
                  raised |-> FALSE]
    IN  loop(0)

\* check_for_premium_redirect: the number of driver.get(job.link) calls it
\* makes, whether current_url is still a premium page at the end, and whether
\* it raises
check_for_premium_redirect(urls) ==
    LET RECURSIVE loop(_)
        loop(attempts) ==
            IF urls[attempts + 1] /\ attempts < max_attempts
            THEN loop(attempts + 1)
            ELSE [navigations |-> attempts, premium |-> urls[attempts + 1],
                  raised |-> urls[attempts + 1]]
    IN  loop(0)

\* where the environment lets one attempt end when no premium page stops it
AttemptOutcomes == {"submitted", "nav_fail", "button_fail", "form_fail"}

\* _execute_job_apply: the calls one attempt makes, in order, for the place
\* where the browser makes it end; ok is FALSE when it raises
\* renavigations and premium are those of the first check_for_premium_redirect
execute_job_apply(job, tile, outcome, urls) ==
    LET described == set_recruiter_link(
                         set_job_description(job, tile.page_description),
                         tile.page_recruiter)
        check == check_for_premium_redirect(urls)
    IN  CASE outcome = "nav_fail" ->
                 [ok |-> FALSE, job |-> job, trace |-> <<"get">>,
                  renavigations |-> 0, premium |-> FALSE]
          [] outcome # "nav_fail" /\ check.raised ->
                 [ok |-> FALSE, job |-> job,
                  trace |-> <<"get", "check_for_premium_redirect">>,
                  renavigations |-> check.navigations, premium |-> check.premium]
          [] outcome = "button_fail" /\ ~check.raised ->
                 [ok |-> FALSE, job |-> job,
                  trace |-> <<"get", "check_for_premium_redirect",
                              "find_easy_apply_button", "discard_application">>,
                  renavigations |-> check.navigations, premium |-> check.premium]
          [] outcome = "form_fail" /\ ~check.raised ->
                 [ok |-> FALSE, job |-> described,
                  trace |-> <<"get", "check_for_premium_redirect",
                              "find_easy_apply_button", "set_job_description",
                              "set_recruiter_link", "click_button",
                              "fill_application_form", "discard_application">>,
                  renavigations |-> check.navigations, premium |-> check.premium]
          [] OTHER ->
                 [ok |-> TRUE, job |-> described,
                  trace |-> <<"get", "check_for_premium_redirect",
                              "find_easy_apply_button", "set_job_description",
                              "set_recruiter_link", "click_button",
                              "fill_application_form">>,
                  renavigations |-> check.navigations, premium |-> check.premium]

\* a retry loop that gives up at the first failed attempt
job_apply_step_no_retry(att, ok) ==
    IF ok THEN "return" ELSE "raise"

\* a retry loop that is one attempt too long
job_apply_step_one_more(att, ok) ==
    IF ok THEN "return"
    ELSE IF att = max_retries THEN "raise"
    ELSE "retry"

\* job_apply, one turn of its loop: what follows an attempt that ended ok or not
job_apply_step(att, ok) ==
    IF ok THEN "return"
    ELSE IF att = max_retries - 1 THEN "raise"
    ELSE "retry"

----------------------------------------------------------------------------
(* apply_jobs *)

\* the apply methods apply_jobs does not apply to
NotApplied == {s_Continue, s_Applied, s_Apply}

\* an apply_jobs that records every failed attempt
apply_jobs_writes_each_attempt(step) ==
    CASE step = "return" -> <<"success">>
      [] OTHER           -> <<"failed">>

\* the file apply_jobs writes once job_apply has returned or raised
apply_jobs_writes(step) ==
    CASE step = "return" -> <<"success">>
      [] step = "raise"  -> <<"failed">>
      [] OTHER           -> <<>>

RECURSIVE write_all(_, _, _)
write_all(fs, job, names) ==
    IF names = <<>> THEN fs
    ELSE write_all(write_to_file(fs, job, Head(names)), job, Tail(names))

LogEvents(i, names) == [k \in 1..Len(names) |-> <<i, names[k]>>]

\* cur: the index of the job, what is_job_suitable did (suitable, wrote), the
\* number of attempts made and of attempts that raised, the number of attempts
\* that began with the navigation to the job link, the calls of the last
\* attempt, and how job_apply ended
NoJobYet == [idx |-> 0, suitable |-> "none", wrote |-> <<>>, attempts |-> 0,
             failures |-> 0, navigations |-> 0, last |-> <<>>, result |-> "none",
             renavigations |-> 0, premium |-> FALSE]

NoCall == [fn |-> "none"]

----------------------------------------------------------------------------
(* The session's inputs *)

Params(title_blacklist, company_blacklist, once, keywords, threshold) ==
    [title_blacklist |-> title_blacklist, company_blacklist |-> company_blacklist,
     apply_once_at_company |-> once, keywords |-> keywords,
     match_threshold |-> threshold]

\* keywords with match_threshold (in hundredths; 75 is set_parameters' default)
Matching ==
    { <<<<>>, 75>>,
      <<<<s_python, s_lead>>, 0>>,
      <<<<s_python, s_lead>>, 50>>,
      <<<<s_Python>>, 100>> }

\* title_blacklist with company_blacklist
Blacklists == { <<<<>>, <<>>>>, <<<<s_lead>>, <<>>>>, <<<<>>, <<s_beta_padded>>>> }

Parameters ==
    { Params(b[1], b[2], once, m[1], m[2]) :
        b \in Blacklists, once \in BOOLEAN, m \in Matching }

AcmeRecord ==
    [company |-> s_ACME, job_title |-> s_Python_Dev, link |-> s_j2,
     job_recruiter |-> <<>>, job_location |-> s_NY]

\* what an earlier run may have left in the output directory
InitialFiles ==
    { [n \in FileNames |-> AbsentFile],
      [n \in FileNames |-> IF n = "failed" THEN CorruptFile
                           ELSE ListFile(<<AcmeRecord>>)] }

TileLists == UNION { [1..n -> Tiles] : n \in 0..MaxJobs }

----------------------------------------------------------------------------
(* The session *)

NotBuilt == [state |-> "none", args |-> <<>>, obj |-> <<>>, calls |-> 0]

\* no Job is followed
NoJob == new_job = NotBuilt

NotFilling == [state |-> "none", pos |-> 0, events |-> <<>>, error |-> <<>>]

\* no form is being filled
NoFill ==
    /\ wizard = <<>>
    /\ fill = NotFilling

\* the flags of DreamBoosterBotState after reset()
ResetState ==
    [credentials_set |-> FALSE, api_key_set |-> FALSE,
     job_application_profile_set |-> FALSE, gpt_answerer_set |-> FALSE,
     parameters_set |-> FALSE, logged_in |-> FALSE,
     application_process_active |-> FALSE]

\* the facade after its construction: no operation called yet (op), no
\* login_component.start seen (login), start_applying not invoked
NewFacade ==
    [state |-> ResetState, n |-> 0, op |-> "none", raised |-> FALSE,
     login |-> "none", invoked |-> 0]

\* no facade operation is followed
NoBot == bot = NewFacade

\* no question has been asked
NoForm ==
    /\ all_data = <<>>
    /\ asked = <<>>

NotStarted ==
    [pc |-> "idle", error |-> "none", searches |-> <<>>, searched |-> <<>>,
     requested |-> 0, waits |-> 0]

\* start_applying has not been called
NoSearch ==
    /\ positions = <<>>
    /\ locations = <<>>
    /\ page_jobs = 0
    /\ search = NotStarted

Init ==
    /\ params \in Parameters
    /\ seen_jobs = <<>>
    /\ files \in InitialFiles
    /\ job_list_elements = <<>>
    /\ job_list = <<>>
    /\ idx = 0
    /\ pc = "idle"
    /\ attempt = 0
    /\ cur = NoJobYet
    /\ wlog = <<>>
    /\ call = NoCall
    /\ NoForm
    /\ NoSearch
    /\ NoJob
    /\ NoFill
    /\ NoBot

\* apply_jobs, up to its loop: the Jobs are built from all tiles first
ApplyJobs(tiles) ==
    /\ pc = "idle"
    /\ job_list_elements' = tiles
    /\ LET info == [i \in 1..Len(tiles) |-> extract_job_information_from_tile(tiles[i])]
       IN  IF \A i \in 1..Len(tiles) :
                  validate_non_empty_fields(info[i][1], info[i][2], info[i][3],
                                            info[i][4], info[i][5])
           THEN /\ job_list' = [i \in 1..Len(tiles) |->
                                   Job(info[i][1], info[i][2], info[i][3],
                                       info[i][4], info[i][5])]
                /\ idx' = 1
                /\ pc' = "filter"
           ELSE /\ job_list' = <<>>
                /\ idx' = 0
                /\ pc' = "raised"
    /\ UNCHANGED <<params, seen_jobs, files, attempt, cur, wlog, call,
                   formVars, searchVars, new_job, fillVars, bot>>

\* one turn of the loop up to the call of job_apply
IsJobSuitable ==
    /\ pc = "filter"
    /\ idx <= Len(job_list)
    /\ LET job == job_list[idx]
           r   == is_job_suitable(job, params, seen_jobs, files)
           applies == job.apply_method \notin NotApplied
       IN  /\ files' = r.files
           /\ wlog' = wlog \o LogEvents(idx, r.wrote)
           /\ cur' = [idx |-> idx,
                      suitable |-> IF r.raised THEN "raise"
                                   ELSE IF r.ret THEN "true" ELSE "false",
                      wrote |-> r.wrote,
                      attempts |-> 0,
                      failures |-> 0,
                      navigations |-> 0,
                      last |-> <<>>,
                      renavigations |-> 0,
                      premium |-> FALSE,
                      result |-> IF ~r.raised /\ r.ret /\ ~applies
                                 THEN "not_applied" ELSE "none"]
           /\ IF r.raised
              THEN pc' = "raised" /\ UNCHANGED <<idx, attempt>>
              ELSE IF r.ret /\ applies
              THEN pc' = "apply" /\ attempt' = 0 /\ UNCHANGED idx
              ELSE pc' = "filter" /\ idx' = idx + 1 /\ UNCHANGED attempt
    /\ UNCHANGED <<params, seen_jobs, job_list_elements, job_list, call,
                   formVars, searchVars, new_job, fillVars, bot>>

\* one attempt of job_apply and, when job_apply is over, the rest of the turn
ExecuteJobApply(outcome, urls) ==
    /\ pc = "apply"
    /\ LET r     == execute_job_apply(job_list[idx], job_list_elements[idx],
                                      outcome, urls)
           step  == job_apply_step(attempt, r.ok)
           names == apply_jobs_writes(step)
       IN  /\ job_list' = [job_list EXCEPT ![idx] = r.job]
           /\ files' = write_all(files, r.job, names)
           /\ wlog' = wlog \o LogEvents(idx, names)
           /\ cur' = [cur EXCEPT !.attempts = @ + 1,
                                 !.failures = IF r.ok THEN @ ELSE @ + 1,
                                 !.navigations = IF Head(r.trace) = "get"
                                                 THEN @ + 1 ELSE @,
                                 !.last = r.trace,
                                 !.renavigations = r.renavigations,
                                 !.premium = r.premium,
                                 !.result = IF step = "return" THEN "returned"
                                            ELSE IF step = "raise" THEN "raised"
                                            ELSE "none"]
           /\ IF step = "retry"
              THEN attempt' = attempt + 1 /\ UNCHANGED <<idx, pc>>
              ELSE idx' = idx + 1 /\ pc' = "filter" /\ UNCHANGED attempt
    /\ UNCHANGED <<params, seen_jobs, job_list_elements, call,
                   formVars, searchVars, new_job, fillVars, bot>>

\* the loop is over
ApplyJobsReturn ==
    /\ pc = "filter"
    /\ idx > Len(job_list)
    /\ pc' = "returned"
    /\ UNCHANGED <<params, seen_jobs, files, job_list_elements, job_list, idx,
                   attempt, cur, wlog, call,
                   formVars, searchVars, new_job, fillVars, bot>>

Next ==
    \/ \E tiles \in TileLists : ApplyJobs(tiles)
    \/ IsJobSuitable
    \/ \E outcome \in AttemptOutcomes, urls \in PageReads :
           ExecuteJobApply(outcome, urls)
    \/ ApplyJobsReturn

Spec == Init /\ [][Next]_vars

----------------------------------------------------------------------------
(* start_applying *)

\* the most positions and the most locations of the configuration
MaxPositions == 2

MaxLocations == 2

\* the most tiles on a results page
MaxPageJobs == 1

\* the value of an attribute that no code assigns
NoAttribute == "no attribute"

\* self.max_pages: read on lines 94 and 110, assigned nowhere
max_pages == NoAttribute

\* list(product(self.positions, self.locations))
product(ps, ls) ==
    [k \in 1..(Len(ps) * Len(ls)) |->
        <<ps[((k - 1) \div Len(ls)) + 1], ls[((k - 1) % Len(ls)) + 1]>>]

\* random.shuffle, the order being the one it happens to produce
shuffle(list, order) == [k \in 1..Len(list) |-> list[order[k]]]

\* start_applying: how it ends, the exception it met, the shuffled searches,
\* the (position, location) pairs a search was started for, the number of
\* results pages requested and the number of waits between pages.
\* Without self.max_pages line 94 raises AttributeError outside the try block.
\* With it, the first turn of the loop calls next_job_page(page), which lacks
\* two of the three arguments of next_job_page: the TypeError is caught on
\* line 114 and the loop is left, before any page is requested.
start_applying(ps, ls, order) ==
    LET searches == shuffle(product(ps, ls), order)
    IN  IF max_pages = NoAttribute
        THEN [pc |-> "raised", error |-> "AttributeError", searches |-> searches,
              searched |-> <<>>, requested |-> 0, waits |-> 0]
        ELSE [pc |-> "returned", error |-> "TypeError", searches |-> searches,
              searched |-> <<>>, requested |-> 0, waits |-> 0]

\* inputimeout raised TimeoutOccurred: nothing was typed within 60 seconds
TimeoutOccurred == <<"TimeoutOccurred">>

\* handle_waiting(minimum_page_time) called at clock time `now`, the operator
\* typing `typed` at the prompt (if there is one): the seconds slept and
\* whether the prompt was shown. The parameter is compared with time.time().
handle_waiting(minimum_page_time, now, typed) ==
    LET time_left == minimum_page_time - now
        user_input == IF typed = TimeoutOccurred THEN <<>>
                      ELSE lower(strip(typed))
    IN  IF time_left > 0
        THEN [prompted |-> TRUE,
              slept |-> IF user_input = <<"y">> THEN 0 ELSE time_left]
        ELSE [prompted |-> FALSE, slept |-> 0]

s_dev == <<"d", "e", "v">>

s_qa == <<"q", "a">>

s_Rome == <<"R", "o", "m", "e">>

\* lists of at most n different names
ListsOf(names, n) ==
    { l \in UNION { [1..k -> names] : k \in 0..n } :
        \A i, j \in 1..Len(l) : l[i] = l[j] => i = j }

InitSearch ==
    /\ params = Params(<<>>, <<>>, FALSE, <<>>, 75)
    /\ seen_jobs = <<>>
    /\ files = [n \in FileNames |-> AbsentFile]
    /\ job_list_elements = <<>>
    /\ job_list = <<>>
    /\ idx = 0
    /\ pc = "idle"
    /\ attempt = 0
    /\ cur = NoJobYet
    /\ wlog = <<>>
    /\ call = NoCall
    /\ NoForm
    /\ positions \in ListsOf({s_dev, s_qa}, MaxPositions)
    /\ locations \in ListsOf({s_NY, s_Rome}, MaxLocations)
    /\ page_jobs \in 0..MaxPageJobs
    /\ search = NotStarted
    /\ NoJob
    /\ NoFill
    /\ NoBot

StartApplying(order) ==
    /\ search.pc = "idle"
    /\ search' = start_applying(positions, locations, order)
    /\ UNCHANGED <<jobVars, call, formVars, positions, locations, page_jobs,
                   new_job, fillVars, bot>>

NextSearch ==
    \E order \in Permutations(1..(Len(positions) * Len(locations))) :
        StartApplying(order)

SpecSearch == InitSearch /\ [][NextSearch]_vars

----------------------------------------------------------------------------
(* Filling the application form *)

\* the most pages of a wizard before it shows its first page again
MaxWizardPages == 2

\* the texts of the inline error indicators after a click
ErrorTexts == {<<>>, <<"e1">>, <<"e1", "e2">>}

\* what the form shows in one turn of the loop: the text of its primary
\* control (NoSuchElement when there is none), whether the follow-company
\* label can be clicked, whether the click on the control goes through, and
\* the error indicators after the click
WizardPages ==
    [button_text : {NoSuchElement, s_Next, s_Submit_application},
     unfollow_ok : BOOLEAN, click_ok : BOOLEAN, errors : ErrorTexts]

\* the pages a wizard shows, turn after turn; after the last one it shows
\* the first again, so that a form that never ends is a wizard too
Wizards == UNION { [1..n -> WizardPages] : n \in 2..MaxWizardPages }

InitFill ==
    /\ params = Params(<<>>, <<>>, FALSE, <<>>, 75)
    /\ seen_jobs = <<>>
    /\ files = [n \in FileNames |-> AbsentFile]
    /\ job_list_elements = <<>>
    /\ job_list = <<>>
    /\ idx = 0
    /\ pc = "idle"
    /\ attempt = 0
    /\ cur = NoJobYet
    /\ wlog = <<>>
    /\ call = NoCall
    /\ NoForm
    /\ NoSearch
    /\ NoJob
    /\ wizard \in Wizards
    /\ fill = [state |-> "FILLING", pos |-> 1, events |-> <<>>, error |-> NoError]
    /\ NoBot

\* one turn of the `while True` of _fill_application_form: fill_up, which
\* catches what its fillers raise, then _next_or_submit
FillApplicationForm ==
    /\ fill.state = "FILLING"
    /\ LET r == next_or_submit(wizard[fill.pos])
       IN  fill' = [state |-> IF r.raised THEN "ABORTED"
                              ELSE IF r.ret THEN "SUBMITTED"
                              ELSE "FILLING",
                    pos |-> IF r.raised \/ r.ret THEN fill.pos
                            ELSE (fill.pos % Len(wizard)) + 1,
                    events |-> <<"fill_up">> \o r.events,
                    error |-> r.error]
    /\ UNCHANGED <<jobVars, call, formVars, searchVars, new_job, wizard, bot>>

NextFill == FillApplicationForm

SpecFill == InitFill /\ [][NextFill]_vars

\* the loop runs on as long as it has not ended
SpecFillFair == SpecFill /\ WF_vars(NextFill)

----------------------------------------------------------------------------
(* The facade (src/src/dream_booster_bot_facade.py) *)

\* the most facade operations of one run
MaxFacadeOps == 6

\* a validate_state that does not look at logged_in
validate_state_no_login(state, required_keys) ==
    \A k \in 1..Len(required_keys) :
        required_keys[k] = "logged_in" \/ state[required_keys[k]]

\* validate_state: TRUE when it returns, FALSE when it raises ValueError
validate_state(state, required_keys) ==
    \A k \in 1..Len(required_keys) : state[required_keys[k]]

\* a logout that resets the flags before it asks the login component
logout_reset_first(state, component_logout) ==
    [state |-> ResetState, raised |-> component_logout # "returned"]

\* logout: login_component.logout() comes first, reset() only when it returned
logout(state, component_logout) ==
    IF component_logout = "returned"
    THEN [state |-> ResetState, raised |-> FALSE]
    ELSE [state |-> state, raised |-> TRUE]

\* DreamBoosterAuthenticator defines start, handle_login, is_captcha_present,
\* is_security_verification_present, enter_credentials, handle_security_check,
\* is_logged_in, get_portal_config and close: login_component.logout() and
\* login_component.refresh() raise AttributeError
authenticator_logout == "AttributeError"

\* what one facade operation leaves behind
Operated(name, state, raised) ==
    [bot EXCEPT !.state = state, !.n = @ + 1, !.op = name, !.raised = raised]

FacadeFrame ==
    UNCHANGED <<jobVars, call, formVars, searchVars, new_job, fillVars>>

\* set_job_application_profile_and_resume: both values must be non-empty
SetJobApplicationProfileAndResume(profile_given, resume_given) ==
    /\ bot.n < MaxFacadeOps
    /\ bot' = IF profile_given /\ resume_given
              THEN Operated("set_job_application_profile_and_resume",
                            [bot.state EXCEPT !.job_application_profile_set = TRUE],
                            FALSE)
              ELSE Operated("set_job_application_profile_and_resume", bot.state, TRUE)
    /\ FacadeFrame

\* set_gpt_answerer_and_resume_generator: the profile must be set; the
\* flag is set after the calls on the two components, which may raise
SetGptAnswererAndResumeGenerator(components_ok) ==
    /\ bot.n < MaxFacadeOps
    /\ bot' = IF bot.state.job_application_profile_set /\ components_ok
              THEN Operated("set_gpt_answerer_and_resume_generator",
                            [bot.state EXCEPT !.gpt_answerer_set = TRUE], FALSE)
              ELSE Operated("set_gpt_answerer_and_resume_generator", bot.state, TRUE)
    /\ FacadeFrame

\* set_parameters: non-empty parameters that the manager's set_parameters
\* accepts (it raises KeyError without outputFileDirectory)
SetParameters(parameters_given, manager_ok) ==
    /\ bot.n < MaxFacadeOps
    /\ bot' = IF parameters_given /\ manager_ok
              THEN Operated("set_parameters",
                            [bot.state EXCEPT !.credentials_set = TRUE,
                                              !.parameters_set = TRUE], FALSE)
              ELSE Operated("set_parameters", bot.state, TRUE)
    /\ FacadeFrame

\* start_login: started is what login_component.start did ("true", "false"
\* or "raised")
StartLogin(started) ==
    /\ bot.n < MaxFacadeOps
    /\ bot' = IF ~validate_state(bot.state, <<"credentials_set">>)
              THEN [Operated("start_login", bot.state, TRUE)
                       EXCEPT !.login = "not called"]
              ELSE [Operated("start_login",
                             [bot.state EXCEPT !.logged_in = (started = "true")],
                             started = "raised")
                       EXCEPT !.login = started]
    /\ FacadeFrame

\* start_apply: apply_component.start_applying() is called without the
\* job_search argument of start_applying (job manager line 84), so the call
\* raises TypeError, which start_apply logs and raises again
StartApply ==
    /\ bot.n < MaxFacadeOps
    /\ bot' = IF validate_state(bot.state,
                                <<"logged_in", "job_application_profile_set",
                                  "gpt_answerer_set", "parameters_set">>)
              THEN [Operated("start_apply", bot.state, TRUE)
                       EXCEPT !.invoked = @ + 1]
              ELSE Operated("start_apply", bot.state, TRUE)
    /\ FacadeFrame

Logout ==
    /\ bot.n < MaxFacadeOps
    /\ LET r == logout(bot.state, authenticator_logout)
       IN  bot' = Operated("logout", r.state, r.raised)
    /\ FacadeFrame

\* refresh_login: login_component.refresh() raises AttributeError
RefreshLogin ==
    /\ bot.n < MaxFacadeOps
    /\ bot' = Operated("refresh_login", bot.state, TRUE)
    /\ FacadeFrame

\* update_job_application_profile and update_resume: no flag is touched
Update(name, value_given) ==
    /\ bot.n < MaxFacadeOps
    /\ bot' = Operated(name, bot.state, ~value_given)
    /\ FacadeFrame

\* the operations that only call a method of the apply component, which
\* DreamBoosterJobManager does not define: AttributeError
ApplyComponentCall(name) ==
    /\ bot.n < MaxFacadeOps
    /\ bot' = Operated(name, bot.state, TRUE)
    /\ FacadeFrame

InitFacade ==
    /\ params = Params(<<>>, <<>>, FALSE, <<>>, 75)
    /\ seen_jobs = <<>>
    /\ files = [n \in FileNames |-> AbsentFile]
    /\ job_list_elements = <<>>
    /\ job_list = <<>>
    /\ idx = 0
    /\ pc = "idle"
    /\ attempt = 0
    /\ cur = NoJobYet
    /\ wlog = <<>>
    /\ call = NoCall
    /\ NoForm
    /\ NoSearch
    /\ NoJob
    /\ NoFill
    /\ NoBot

NextFacade ==
    \/ \E profile_given, resume_given \in BOOLEAN :
           SetJobApplicationProfileAndResume(profile_given, resume_given)
    \/ \E components_ok \in BOOLEAN : SetGptAnswererAndResumeGenerator(components_ok)
    \/ \E parameters_given, manager_ok \in BOOLEAN :
           SetParameters(parameters_given, manager_ok)
    \/ \E started \in {"true", "false", "raised"} : StartLogin(started)
    \/ StartApply
    \/ Logout
    \/ RefreshLogin
    \/ \E name \in {"update_job_application_profile", "update_resume"},
          value_given \in BOOLEAN : Update(name, value_given)
    \/ \E name \in {"get_application_status", "pause_application_process",
                     "resume_application_process", "get_job_recommendations"} :
           ApplyComponentCall(name)

SpecFacade == InitFacade /\ [][NextFacade]_vars

----------------------------------------------------------------------------
(* One Job object *)

\* the most setter calls on one Job
MaxSetterCalls == 2

\* the texts a field is given: empty, a blank, a letter
FieldTexts == {<<>>, <<" ">>, <<"a">>}

SetterTexts == {<<>>, <<"b">>}

InitJob ==
    /\ params = Params(<<>>, <<>>, FALSE, <<>>, 75)
    /\ seen_jobs = <<>>
    /\ files = [n \in FileNames |-> AbsentFile]
    /\ job_list_elements = <<>>
    /\ job_list = <<>>
    /\ idx = 0
    /\ pc = "idle"
    /\ attempt = 0
    /\ cur = NoJobYet
    /\ wlog = <<>>
    /\ call = NoCall
    /\ NoForm
    /\ NoSearch
    /\ NoJob
    /\ NoFill
    /\ NoBot

\* Job(title, company, location, link, apply_method)
NewJob(title, company, location, link, apply_method) ==
    /\ new_job.state = "none"
    /\ new_job' =
           IF validate_non_empty_fields(title, company, location, link, apply_method)
           THEN [state |-> "built",
                 args |-> <<title, company, location, link, apply_method>>,
                 obj |-> Job(title, company, location, link, apply_method),
                 calls |-> 0]
           ELSE [state |-> "raised",
                 args |-> <<title, company, location, link, apply_method>>,
                 obj |-> <<>>,
                 calls |-> 0]
    /\ UNCHANGED <<jobVars, call, formVars, searchVars, fillVars, bot>>

ConstructJob ==
    /\ new_job.state = "none"
    /\ \E title \in FieldTexts, company \in FieldTexts, location \in FieldTexts,
          link \in FieldTexts, apply_method \in FieldTexts :
           NewJob(title, company, location, link, apply_method)

SetJobDescription(description) ==
    /\ new_job.state = "built"
    /\ new_job.calls < MaxSetterCalls
    /\ new_job' = [new_job EXCEPT !.obj = set_job_description(@, description),
                                  !.calls = @ + 1]
    /\ UNCHANGED <<jobVars, call, formVars, searchVars, fillVars, bot>>

SetRecruiterLink(recruiter_link) ==
    /\ new_job.state = "built"
    /\ new_job.calls < MaxSetterCalls
    /\ new_job' = [new_job EXCEPT !.obj = set_recruiter_link(@, recruiter_link),
                                  !.calls = @ + 1]
    /\ UNCHANGED <<jobVars, call, formVars, searchVars, fillVars, bot>>

SetSummarizeJobDescription(summarize_job_description) ==
    /\ new_job.state = "built"
    /\ new_job.calls < MaxSetterCalls
    /\ new_job' = [new_job EXCEPT
                       !.obj = set_summarize_job_description(@, summarize_job_description),
                       !.calls = @ + 1]
    /\ UNCHANGED <<jobVars, call, formVars, searchVars, fillVars, bot>>

NextJob ==
    \/ ConstructJob
    \/ \E t \in SetterTexts : SetJobDescription(t)
    \/ \E t \in SetterTexts : SetRecruiterLink(t)
    \/ \E t \in SetterTexts : SetSummarizeJobDescription(t)

SpecJob == InitJob /\ [][NextJob]_vars

----------------------------------------------------------------------------
(* The questions of the application forms *)

\* the most entries of answers.json
MaxStore == 2

\* the most questions asked in a run
MaxQuestions == 2

StoredQuestions == {<<"a">>, <<"A">>, <<"b">>}

StoredAnswers == {<<"x">>, <<"y">>}

\* what answers.json holds when the easy applier is built
Stores ==
    UNION { [1..n -> [question : StoredQuestions, answer : StoredAnswers]] :
              n \in 0..MaxStore }

\* the labels of the text fields of the forms
AskedQuestions == {<<"a">>, <<"A">>, <<"B">>, <<"c">>}

\* what gpt_answerer.answer_question may return
GptAnswers == {<<"g">>, <<"h">>}

InitForm ==
    /\ params = Params(<<>>, <<>>, FALSE, <<>>, 75)
    /\ seen_jobs = <<>>
    /\ files = [n \in FileNames |-> AbsentFile]
    /\ job_list_elements = <<>>
    /\ job_list = <<>>
    /\ idx = 0
    /\ pc = "idle"
    /\ attempt = 0
    /\ cur = NoJobYet
    /\ wlog = <<>>
    /\ call = NoCall
    /\ all_data \in Stores
    /\ asked = <<>>
    /\ NoSearch
    /\ NoJob
    /\ NoFill
    /\ NoBot

\* _handle_text_fields asks for the answer to the label of a text field
GetAnswerForQuestion(question, gpt_answer) ==
    /\ Len(asked) < MaxQuestions
    /\ LET r == get_answer_for_question(question, all_data, gpt_answer)
       IN  /\ all_data' = r.all_data
           /\ asked' = Append(asked, [question |-> question,
                                      answer |-> r.answer,
                                      answerer_called |-> r.answerer_called])
    /\ UNCHANGED <<jobVars, call, searchVars, new_job, fillVars, bot>>

NextForm ==
    \E question \in AskedQuestions, gpt_answer \in GptAnswers :
        GetAnswerForQuestion(question, gpt_answer)

SpecForm == InitForm /\ [][NextForm]_vars

----------------------------------------------------------------------------
(* The filter's functions called on their own, on every short text *)

PureChars == {"a", "A", " "}

Strings(n) == UNION { [1..k -> PureChars] : k \in 0..n }

PureTitles == Strings(MaxStrLen) \cup {s_Lead_Engineer, s_Team_Leader_Wanted}

PureEntries == Strings(MaxStrLen - 1) \cup {s_lead, s_team_leader}

PureTitleBlacklists == {<<>>} \cup { <<e>> : e \in PureEntries }

PureKeywords == Strings(MaxStrLen - 2) \cup {<<"a", "A">>}

PureKeywordLists ==
    {<<>>} \cup { <<k>> : k \in PureKeywords }
           \cup { <<k1, k2>> : k1 \in PureKeywords, k2 \in PureKeywords }

PureDescriptions == {<<>>, <<"A", " ", "a">>}

PureThresholds == {0, 50, 75, 100}

InitPure ==
    /\ params = Params(<<>>, <<>>, FALSE, <<>>, 75)
    /\ seen_jobs = <<>>
    /\ files = [n \in FileNames |-> AbsentFile]
    /\ job_list_elements = <<>>
    /\ job_list = <<>>
    /\ idx = 0
    /\ pc = "idle"
    /\ attempt = 0
    /\ cur = NoJobYet
    /\ wlog = <<>>
    /\ call = NoCall
    /\ NoForm
    /\ NoSearch
    /\ NoJob
    /\ NoFill
    /\ NoBot

\* one call is made in each run
CallIsBlacklisted(job_title, title_blacklist) ==
    /\ call = NoCall
    /\ call' = [fn |-> "is_blacklisted",
                job_title |-> job_title,
                title_blacklist |-> title_blacklist,
                ret |-> is_blacklisted(job_title, s_Acme, s_j1,
                                       [params EXCEPT !.title_blacklist = title_blacklist],
                                       seen_jobs)]
    /\ UNCHANGED <<params, seen_jobs, files, job_list_elements, job_list, idx, pc,
                   attempt, cur, wlog,
                   formVars, searchVars, new_job, fillVars, bot>>

CallMatchesJobCriteria(title, description, keywords, threshold) ==
    /\ call = NoCall
    /\ LET job == set_job_description(Job(title, s_Acme, s_NY, s_j1, s_Easy_Apply),
                                      description)
           r   == matches_job_criteria(job, [params EXCEPT !.keywords = keywords,
                                                           !.match_threshold = threshold])
       IN  call' = [fn |-> "matches_job_criteria",
                    title |-> title,
                    description |-> description,
                    keywords |-> keywords,
                    match_threshold |-> threshold,
                    raised |-> r.raised,
                    value |-> r.value]
    /\ UNCHANGED <<params, seen_jobs, files, job_list_elements, job_list, idx, pc,
                   attempt, cur, wlog,
                   formVars, searchVars, new_job, fillVars, bot>>

PureCompanies == Strings(MaxStrLen) \cup {s_Acme, s_Beta}

PureCompanyBlacklists ==
    {<<>>} \cup { <<e>> : e \in Strings(MaxStrLen - 1) \cup {s_beta_padded} }

CallCompanyBlacklisted(company, company_blacklist) ==
    /\ call = NoCall
    /\ call' = [fn |-> "is_blacklisted_company",
                company |-> company,
                company_blacklist |-> company_blacklist,
                ret |-> is_blacklisted(s_Python_Dev, company, s_j1,
                                       [params EXCEPT
                                           !.company_blacklist = company_blacklist],
                                       seen_jobs)]
    /\ UNCHANGED <<params, seen_jobs, files, job_list_elements, job_list, idx, pc,
                   attempt, cur, wlog,
                   formVars, searchVars, new_job, fillVars, bot>>

PureCompanyBlacklisted ==
    /\ call = NoCall
    /\ \E c \in PureCompanies, b \in PureCompanyBlacklists :
           CallCompanyBlacklisted(c, b)

\* the longest option list of a select element
MaxOptions == 3

OptionTexts == {<<"Y", "e", "s">>, <<"N", "o">>}

OptionLists == UNION { [1..n -> OptionTexts] : n \in 1..MaxOptions }

\* _handle_dropdown_fields on a select showing options, the option at
\* position selected being the selected one before
CallHandleDropdownFields(options, selected, choice) ==
    /\ call = NoCall
    /\ call' = [fn |-> "handle_dropdown_fields",
                options |-> options,
                before |-> selected,
                selected |-> handle_dropdown_fields(options, selected, choice)]
    /\ UNCHANGED <<params, seen_jobs, files, job_list_elements, job_list, idx, pc,
                   attempt, cur, wlog,
                   formVars, searchVars, new_job, fillVars, bot>>

PureHandleDropdownFields ==
    /\ call = NoCall
    /\ \E options \in OptionLists :
       \E selected \in 1..Len(options) :
       \E choice \in (IF Len(options) > 1 THEN 2..Len(options) ELSE {1}) :
           CallHandleDropdownFields(options, selected, choice)

\* a log that was cut short while it was written: the records are in its
\* text, which json.load cannot parse
TornFile(records) == [state |-> "corrupt", data |-> records]

BetaRecord ==
    [company |-> s_Beta, job_title |-> s_Lead_Engineer, link |-> s_j1,
     job_recruiter |-> <<>>, job_location |-> s_NY]

\* what a log may hold before a write
PureLogs ==
    { AbsentFile, CorruptFile, ListFile(<<>>), ListFile(<<AcmeRecord>>),
      ListFile(<<AcmeRecord, BetaRecord>>), TornFile(<<AcmeRecord>>),
      TornFile(<<BetaRecord, AcmeRecord>>) }

PureJobs ==
    { Job(s_Python_Dev, s_Beta, s_NY, s_j1, s_Easy_Apply),
      Job(s_Lead_Engineer, s_Acme, s_NY, s_j2, s_Easy_Apply) }

\* write_to_file(job, file_name) on the logs fs
CallWriteToFile(fs, job, file_name) ==
    /\ call = NoCall
    /\ call' = [fn |-> "write_to_file",
                file_name |-> file_name,
                record |-> OutcomeRecord(job),
                before |-> fs,
                after |-> write_to_file(fs, job, file_name)]
    /\ UNCHANGED <<params, seen_jobs, files, job_list_elements, job_list, idx, pc,
                   attempt, cur, wlog, formVars, searchVars, new_job, fillVars, bot>>

PureWriteToFile ==
    /\ call = NoCall
    /\ \E log \in PureLogs, other \in {AbsentFile, ListFile(<<BetaRecord>>)},
          file_name \in FileNames, job \in PureJobs :
           CallWriteToFile([n \in FileNames |-> IF n = file_name THEN log ELSE other],
                           job, file_name)

\* what self.seen_jobs may hold when is_job_suitable is called directly
PureSeen == {<<>>, <<s_j1>>}

PureFilterJobs ==
    PureJobs \cup { Job(s_Python_Dev, s_Acme, s_NY, s_j3, s_Easy_Apply) }

CallIsJobSuitable(job, p, seen, fs) ==
    /\ call = NoCall
    /\ LET r == is_job_suitable(job, p, seen, fs)
       IN  call' = [fn |-> "is_job_suitable", job |-> job, params |-> p,
                    seen_jobs |-> seen, files |-> fs, raised |-> r.raised,
                    ret |-> r.ret, checks |-> r.checks, reads |-> r.reads]
    /\ UNCHANGED <<params, seen_jobs, files, job_list_elements, job_list, idx, pc,
                   attempt, cur, wlog, formVars, searchVars, new_job, fillVars, bot>>

PureIsJobSuitable ==
    /\ call = NoCall
    /\ \E job \in PureFilterJobs, p \in Parameters, seen \in PureSeen,
          fs \in InitialFiles :
           CallIsJobSuitable(job, p, seen, fs)

CallDiscardApplication(dismiss, confirm) ==
    /\ call = NoCall
    /\ LET r == discard_application(dismiss, confirm)
       IN  call' = [fn |-> "discard_application", dismiss |-> dismiss,
                    confirm |-> confirm, attempted |-> r.attempted,
                    raised |-> r.raised]
    /\ UNCHANGED <<params, seen_jobs, files, job_list_elements, job_list, idx, pc,
                   attempt, cur, wlog, formVars, searchVars, new_job, fillVars, bot>>

PureDiscardApplication ==
    /\ call = NoCall
    /\ \E dismiss \in Interactions, confirm \in Interactions :
           CallDiscardApplication(dismiss, confirm)

\* what the search methods give in each pass
ButtonPages == [Passes -> [1..Len(search_methods) -> BOOLEAN]]

CallFindEasyApplyButton(page, premium_at) ==
    /\ call = NoCall
    /\ LET r == find_easy_apply_button(page, premium_at)
       IN  call' = [fn |-> "find_easy_apply_button", page |-> page,
                    ret |-> r.ret, error |-> r.error, events |-> r.events]
    /\ UNCHANGED <<params, seen_jobs, files, job_list_elements, job_list, idx, pc,
                   attempt, cur, wlog, formVars, searchVars, new_job, fillVars, bot>>

PureFindEasyApplyButton ==
    /\ call = NoCall
    /\ \E page \in ButtonPages, premium_at \in {0} \cup PremiumChecks :
           CallFindEasyApplyButton(page, premium_at)

\* the form sections (elements of class pb4)
Sections ==
    [kinds : SUBSET ChildKinds, text_says_upload : BOOLEAN, has_label : BOOLEAN]

CallProcessFormElement(section) ==
    /\ call = NoCall
    /\ call' = [fn |-> "process_form_element", section |-> section,
                filler |-> process_form_element(section)]
    /\ UNCHANGED <<params, seen_jobs, files, job_list_elements, job_list, idx, pc,
                   attempt, cur, wlog, formVars, searchVars, new_job, fillVars, bot>>

PureProcessFormElement ==
    /\ call = NoCall
    /\ \E section \in Sections : CallProcessFormElement(section)

\* the most sections of one step of the wizard
MaxSections == 2

\* a section of a step with at most one kind of control, and whether the
\* interactions of its filler go through
StepSections ==
    [kinds : {{}} \cup {{k} : k \in ChildKinds},
     text_says_upload : BOOLEAN, has_label : BOOLEAN, filler_ok : BOOLEAN]

Steps == UNION { [1..n -> StepSections] : n \in 0..MaxSections }

CallFillUp(content_found, sections, has_resume) ==
    /\ call = NoCall
    /\ call' = [fn |-> "fill_up", content_found |-> content_found,
                sections |-> sections, has_resume |-> has_resume,
                result |-> fill_up(content_found, sections, has_resume)]
    /\ UNCHANGED <<params, seen_jobs, files, job_list_elements, job_list, idx, pc,
                   attempt, cur, wlog, formVars, searchVars, new_job, fillVars, bot>>

PureFillUp ==
    /\ call = NoCall
    /\ \E content_found \in BOOLEAN, sections \in Steps, has_resume \in BOOLEAN :
           CallFillUp(content_found, sections, has_resume)

\* random.uniform(15, 60), in whole seconds
WaitTimes == {15, 30, 60}

\* time.time(): seconds since 1970 on the day of the run
Clocks == {1700000000, 1700000040}

\* what the operator may type at the prompt
TypedInputs == {TimeoutOccurred, <<>>, <<"y">>, <<"Y", " ">>, <<"n">>}

\* lines 111-113 of start_applying: the wait chosen after a page and the
\* call handle_waiting(wait_time)
CallHandleWaiting(wait_time, now, typed) ==
    /\ call = NoCall
    /\ call' = [fn |-> "handle_waiting", wait_time |-> wait_time, now |-> now,
                typed |-> typed,
                result |-> handle_waiting(wait_time, now, typed)]
    /\ UNCHANGED <<params, seen_jobs, files, job_list_elements, job_list, idx, pc,
                   attempt, cur, wlog, formVars, searchVars, new_job, fillVars, bot>>

PureHandleWaiting ==
    /\ call = NoCall
    /\ \E wait_time \in WaitTimes, now \in Clocks, typed \in TypedInputs :
           CallHandleWaiting(wait_time, now, typed)

\* the company names of the calls
AppliedCompanies == {s_Acme, s_ACME, s_Beta, s_beta_padded}

\* the three logs, each with what an earlier run or this one may have left
PureOutputs == [FileNames -> PureLogs]

\* is_already_applied_to_company(company) with the logs fs on disk
CallIsAlreadyAppliedToCompany(company, apply_once_at_company, fs) ==
    /\ call = NoCall
    /\ call' = [fn |-> "is_already_applied_to_company", company |-> company,
                apply_once_at_company |-> apply_once_at_company, files |-> fs,
                ret |-> is_already_applied_to_company(
                            company,
                            Params(<<>>, <<>>, apply_once_at_company, <<>>, 75),
                            fs)]
    /\ UNCHANGED <<params, seen_jobs, files, job_list_elements, job_list, idx, pc,
                   attempt, cur, wlog, formVars, searchVars, new_job, fillVars, bot>>

PureIsAlreadyAppliedToCompany ==
    /\ call = NoCall
    /\ \E company \in AppliedCompanies, apply_once_at_company \in BOOLEAN,
          fs \in PureOutputs :
           CallIsAlreadyAppliedToCompany(company, apply_once_at_company, fs)

PureIsBlacklisted ==
    /\ call = NoCall
    /\ \E t \in PureTitles, b \in PureTitleBlacklists : CallIsBlacklisted(t, b)

PureMatchesJobCriteria ==
    /\ call = NoCall
    /\ \E t \in Strings(MaxStrLen - 1), d \in PureDescriptions,
          k \in PureKeywordLists, th \in PureThresholds :
           CallMatchesJobCriteria(t, d, k, th)

NextPure ==
    \/ PureIsBlacklisted
    \/ PureMatchesJobCriteria
    \/ PureCompanyBlacklisted
    \/ PureHandleDropdownFields
    \/ PureWriteToFile
    \/ PureIsJobSuitable
    \/ PureDiscardApplication
    \/ PureFindEasyApplyButton
    \/ PureProcessFormElement
    \/ PureFillUp
    \/ PureHandleWaiting
    \/ PureIsAlreadyAppliedToCompany

SpecPure == InitPure /\ [][NextPure]_vars

----------------------------------------------------------------------------
(* Properties *)

\* completed write_to_file calls for job i to file n, and to any file
WritesIn(log, i, n) == Cardinality({ k \in 1..Len(log) : log[k] = <<i, n>> })

Writes(i, n) == WritesIn(wlog, i, n)

TotalWrites(i) == Cardinality({ k \in 1..Len(wlog) : wlog[k][1] = i })

\* the number of records a file holds when it is read
Records(file) == Len(load_existing(file))

\* C1: when apply_jobs has returned without an exception, every job it was
\* handed has exactly one record across success, failed and skipped.
C1_ExactlyOneRecord ==
    pc = "returned" =>
        \A i \in 1..Len(job_list_elements) : TotalWrites(i) = 1

\* C2: a call of is_job_suitable that returns false adds exactly one record to
\* the skipped file and leaves success and failed as they were; a call that
\* returns true leaves all three files as they were.
C2_FilterWritesSkippedOnly ==
    [][ (pc = "filter" /\ idx <= Len(job_list)) =>
          /\ cur'.suitable = "false" =>
                /\ files'["skipped"].state = "list"
                /\ Records(files'["skipped"]) = Records(files["skipped"]) + 1
                /\ files'["skipped"].data[Records(files'["skipped"])].link
                       = job_list[idx].link
                /\ files'["success"] = files["success"]
                /\ files'["failed"] = files["failed"]
                /\ Len(wlog') = Len(wlog) + 1
                /\ WritesIn(wlog', idx, "skipped") = 1
          /\ cur'.suitable = "true" =>
                /\ files' = files
                /\ wlog' = wlog ]_vars

C2_Witness ==
    /\ cur.idx = 2
    /\ cur.suitable = "true"
    /\ wlog = <<<<1, "skipped">>>>

\* C3: when job_apply returned after at least one failed attempt, the job has
\* exactly one success record and no failed record.
C3_OneSuccessAfterRetry ==
    (cur.result = "returned" /\ cur.failures >= 1) =>
        /\ Writes(cur.idx, "success") = 1
        /\ Writes(cur.idx, "failed") = 0
        /\ TotalWrites(cur.idx) = 1

C3_Witness ==
    /\ cur.result = "returned"
    /\ cur.failures = 2
    /\ Writes(cur.idx, "success") = 1

\* C4: job_apply makes at most max_retries attempts, each beginning with the
\* navigation to the job link; it goes on only after a failed attempt, returns
\* at the first attempt that succeeds, and raises only after max_retries failed
\* attempts, upon which the job gets its failed record and the loop moves on
\* to the next job.
C4_JobApplyRetries ==
    /\ cur.attempts <= max_retries
    /\ cur.navigations = cur.attempts
    /\ pc = "apply" => (cur.failures = cur.attempts /\ cur.attempts = attempt
                         /\ cur.attempts < max_retries)
    /\ cur.result = "returned" =>
          /\ cur.failures = cur.attempts - 1
          /\ cur.last[Len(cur.last)] = "fill_application_form"
    /\ cur.result = "raised" =>
          /\ cur.attempts = max_retries
          /\ cur.failures = max_retries
          /\ Writes(cur.idx, "failed") = 1
          /\ Writes(cur.idx, "success") = 0
          /\ idx = cur.idx + 1
          /\ pc \in {"filter", "returned"}

C4_Witness ==
    /\ Writes(1, "failed") = 1
    /\ cur.idx = 2
    /\ cur.suitable # "none"

\* C5: apply_jobs never ends, normally or by an exception, before every job of
\* the list it was handed has been processed.
C5_LaterJobsProcessed ==
    pc \in {"returned", "raised"} => idx = Len(job_list_elements) + 1

\* a success record for the company, its name compared ignoring letter case
SuccessRecordFor(company, fs) ==
    /\ fs["success"].state = "list"
    /\ \E k \in 1..Len(fs["success"].data) :
           lower(fs["success"].data[k].company) = lower(company)

\* C6: with apply_once_at_company, a job evaluated while the success file holds
\* a record of a company of the same name, letter case ignored, is rejected
\* and gets a skipped record.
C6_ApplyOnceAtCompany ==
    [][ (/\ pc = "filter"
         /\ idx <= Len(job_list)
         /\ params.apply_once_at_company
         /\ SuccessRecordFor(job_list[idx].company, files)) =>
          /\ cur'.suitable = "false"
          /\ pc' = "filter"
          /\ WritesIn(wlog', idx, "skipped") = 1
          /\ files'["skipped"].data[Records(files'["skipped"])].link
                 = job_list[idx].link ]_vars

C6_Witness ==
    /\ params.apply_once_at_company
    /\ params.title_blacklist = <<>>
    /\ params.company_blacklist = <<>>
    /\ wlog = <<<<1, "success">>, <<2, "skipped">>>>
    /\ job_list[1].company # job_list[2].company
    /\ job_list[1].link # job_list[2].link
    /\ matches_job_criteria(job_list[2], params).value

\* C7: a job whose link is the link of an earlier job of the session is
\* rejected by the filter.
C7_SeenLinkRejected ==
    (/\ cur.suitable # "none"
     /\ \E j \in 1..(cur.idx - 1) : job_list[j].link = job_list[cur.idx].link) =>
        cur.suitable = "false"

\* C8: with no keywords, a job that reaches the keyword check passes it and
\* nothing is raised.
C8_EmptyKeywordsPass ==
    (params.keywords = <<>> /\ cur.suitable # "none" /\ cur.wrote = <<>>) =>
        cur.suitable = "true"

\* keyword k occurs in text t, letter case ignored
Occurs(k, t) ==
    \E i \in 0..(Len(t) - Len(k)) :
        \A j \in 1..Len(k) : LowerChar(k[j]) = LowerChar(t[i + j])

\* C9: for a non-empty keyword list matches_job_criteria passes exactly when
\* (keywords occurring in the title or the description) / (keywords) is at
\* least match_threshold, and so always when match_threshold is 0.
C9_KeywordThreshold ==
    (call.fn = "matches_job_criteria" /\ call.keywords # <<>>) =>
        LET found == { k \in 1..Len(call.keywords) :
                          \/ Occurs(call.keywords[k], call.title)
                          \/ Occurs(call.keywords[k], call.description) }
        IN  /\ ~call.raised
            /\ call.value = (Cardinality(found) * 100
                                 >= call.match_threshold * Len(call.keywords))
            /\ call.match_threshold = 0 => call.value

C9_Witness ==
    /\ call.fn = "matches_job_criteria"
    /\ call.match_threshold = 50
    /\ call.keywords = <<<<"A">>, <<" ">>>>
    /\ call.title = <<"a">>
    /\ call.description = <<>>
    /\ call.value

\* e stands in t as a whole word: bounded by spaces or the ends of t
WholeWord(e, t) ==
    /\ \A j \in 1..Len(e) : e[j] # " "
    /\ \E i \in 1..(Len(t) + 1 - Len(e)) :
          /\ \A j \in 1..Len(e) : t[i + j - 1] = e[j]
          /\ i = 1 \/ t[i - 1] = " "
          /\ i + Len(e) - 1 = Len(t) \/ t[i + Len(e)] = " "

HasSpace(e) == \E j \in 1..Len(e) : e[j] = " "

\* C10: the title blacklist matches exactly the entries that stand as a whole
\* word in the lowercased title: "lead" blocks "Lead Engineer" and not
\* "Team Leader Wanted", and an entry with a space blocks nothing.
C10_TitleWholeWord ==
    call.fn = "is_blacklisted" =>
        /\ call.ret = \E k \in 1..Len(call.title_blacklist) :
                          WholeWord(call.title_blacklist[k], lower(call.job_title))
        /\ (call.title_blacklist = <<s_lead>> /\ call.job_title = s_Team_Leader_Wanted)
               => ~call.ret
        /\ (call.title_blacklist = <<s_lead>> /\ call.job_title = s_Lead_Engineer)
               => call.ret
        /\ (\A k \in 1..Len(call.title_blacklist) : HasSpace(call.title_blacklist[k]))
               => ~call.ret

C10_Witness ==
    /\ call.fn = "is_blacklisted"
    /\ call.title_blacklist = <<s_lead>>
    /\ call.job_title = s_Team_Leader_Wanted
    /\ ~call.ret

\* C11: a title-blacklist entry blocks a title whatever the letter case the
\* entry is written in: the verdict is the one of the lowercased entry.
C11_EntryCaseInsensitive ==
    call.fn = "is_blacklisted" =>
        call.ret = \E k \in 1..Len(call.title_blacklist) :
                       WholeWord(lower(call.title_blacklist[k]), lower(call.job_title))

\* the text between the first and the last character of s that is not a space
Core(s) ==
    IF \A i \in 1..Len(s) : s[i] = " "
    THEN <<>>
    ELSE LET first == CHOOSE i \in 1..Len(s) :
                          s[i] # " " /\ \A m \in 1..(i - 1) : s[m] = " "
             last  == CHOOSE i \in 1..Len(s) :
                          s[i] # " " /\ \A m \in (i + 1)..Len(s) : s[m] = " "
         IN  SubSeq(s, first, last)

\* two names are the same once surrounding spaces and letter case are ignored
SameName(a, b) ==
    /\ Len(Core(a)) = Len(Core(b))
    /\ \A j \in 1..Len(Core(a)) : LowerChar(Core(a)[j]) = LowerChar(Core(b)[j])

\* C12: a company is blacklisted exactly when its name, surrounding spaces and
\* letter case ignored, is the name of a blacklist entry; a name that only
\* contains an entry is not.
C12_CompanyExactMatch ==
    call.fn = "is_blacklisted_company" =>
        call.ret = \E k \in 1..Len(call.company_blacklist) :
                       SameName(call.company_blacklist[k], call.company)

C12_Witness ==
    /\ call.fn = "is_blacklisted_company"
    /\ call.company = <<"a", "A">>
    /\ call.company_blacklist = <<<<"a">>>>
    /\ ~call.ret

\* the second job of the list came from the same tile as the first, and the
\* filter has returned a boolean for both
SameJobTwice ==
    /\ cur.idx = 2
    /\ job_list_elements[1] = job_list_elements[2]
    /\ cur.suitable # "raise"

\* the filter accepted the first job of the list
FirstAccepted == WritesIn(wlog, 1, "skipped") = 0

\* C13 as stated: with the blacklists, the keyword configuration and the seen
\* set fixed, two evaluations of is_job_suitable on the same job return the
\* same boolean.
C13_SameJobSameVerdict ==
    SameJobTwice => ((cur.suitable = "true") = FirstAccepted)

\* C13: with the blacklists, the keyword configuration, the seen set and the
\* success log fixed, two evaluations of is_job_suitable on the same job
\* return the same boolean.
C13_SameVerdictWhileNoSuccess ==
    (SameJobTwice /\ WritesIn(wlog, 1, "success") = 0)
        => ((cur.suitable = "true") = FirstAccepted)

C13_Witness ==
    /\ SameJobTwice
    /\ params.apply_once_at_company
    /\ WritesIn(wlog, 1, "failed") = 1
    /\ cur.suitable = "true"

\* C14: when the select element has two or more options, the dropdown filler
\* never leaves the first option (index 0 of the list) selected.
C14_PlaceholderNotSelected ==
    (call.fn = "handle_dropdown_fields" /\ Len(call.options) >= 2)
        => call.selected # 1

\* the calls of an attempt that check_for_premium_redirect ends by raising
PremiumFailTrace == <<"get", "check_for_premium_redirect">>

\* C15: check_for_premium_redirect navigates back to the job link at most
\* max_attempts times; when the page is still a premium page after the last
\* of them it raises, the attempt counts as failed, and the job is retried or
\* ends with its failed record, never as an application and never unrecorded.
C15_PremiumRedirect ==
    /\ cur.renavigations <= max_attempts
    /\ cur.renavigations < max_attempts => ~cur.premium
    /\ cur.premium =>
          /\ cur.last = PremiumFailTrace
          /\ cur.failures = cur.attempts
          /\ cur.result # "returned"
          /\ Writes(cur.idx, "success") = 0
          /\ cur.result = "none" => (pc = "apply" /\ idx = cur.idx)
          /\ cur.result = "raised" =>
                (Writes(cur.idx, "failed") = 1 /\ TotalWrites(cur.idx) = 1)

C15_Witness ==
    /\ cur.premium
    /\ cur.renavigations = max_attempts
    /\ cur.result = "raised"
    /\ Writes(cur.idx, "failed") = 1

\* C16 as stated: once check_for_premium_redirect has failed to return to the
\* job page, the session is over: the error reaches the top and neither
\* another attempt nor another job follows.
C16_PremiumAbortsSession ==
    [][cur.premium => pc' = "raised"]_vars

\* C16: a premium redirect that cannot be left fails the attempt only: job_apply
\* tries again while attempts are left, then apply_jobs records the job as
\* failed and goes on with the next job; apply_jobs does not raise.
C16_PremiumFailsJobOnly ==
    cur.premium =>
        /\ pc \in {"apply", "filter", "returned"}
        /\ pc = "apply" => (cur.attempts < max_retries /\ idx = cur.idx)
        /\ pc # "apply" =>
              /\ cur.attempts = max_retries
              /\ idx = cur.idx + 1
              /\ wlog[Len(wlog)] = <<cur.idx, "failed">>

C16_Witness ==
    /\ cur.premium
    /\ cur.idx = 1
    /\ pc = "filter"
    /\ idx = 2
    /\ Len(job_list) = 2

\* two texts are the same once letter case is ignored
SameText(a, b) ==
    /\ Len(a) = Len(b)
    /\ \A j \in 1..Len(a) : LowerChar(a[j]) = LowerChar(b[j])

\* the entries of the store whose question is the given one, case ignored
Hits(question) ==
    { i \in 1..Len(all_data) : SameText(all_data[i].question, question) }

\* C17: a question that equals, letter case ignored, the question of a stored
\* entry is answered with the answer of the first such entry and the external
\* answerer is not called; the answerer is called only when no entry matches.
C17_StoredAnswerFirst ==
    \A k \in 1..Len(asked) :
        IF Hits(asked[k].question) # {}
        THEN /\ ~asked[k].answerer_called
             /\ \E i \in Hits(asked[k].question) :
                    /\ \A m \in Hits(asked[k].question) : i <= m
                    /\ asked[k].answer = all_data[i].answer
        ELSE asked[k].answerer_called

C17_Witness ==
    /\ Len(all_data) = 2
    /\ all_data[1] = [question |-> <<"a">>, answer |-> <<"x">>]
    /\ all_data[2] = [question |-> <<"A">>, answer |-> <<"y">>]
    /\ Len(asked) = 1
    /\ asked[1] = [question |-> <<"A">>, answer |-> <<"x">>,
                   answerer_called |-> FALSE]

\* C18: no question changes the store, and a question the external answerer
\* has answered goes to the answerer again when it is asked again.
C18_StoreReadOnly ==
    [][/\ all_data' = all_data
       /\ \A k \in 1..Len(asked) :
              (/\ asked[k].answerer_called
               /\ Len(asked') = Len(asked) + 1
               /\ asked'[Len(asked')].question = asked[k].question)
                  => asked'[Len(asked')].answerer_called]_vars

C18_Witness ==
    /\ Len(asked) = 2
    /\ asked[1].question = asked[2].question
    /\ asked[1].answerer_called
    /\ asked[2].answerer_called
    /\ all_data # <<>>

\* start_applying is over
SearchOver == search.pc \in {"returned", "raised"}

\* C19: when the results page of a search shows no job, start_applying ends
\* that search after this one page, without a wait and without an exception.
C19_EmptyPageEndsSearch ==
    (SearchOver /\ page_jobs = 0 /\ Len(positions) * Len(locations) > 0)
        => /\ search.pc = "returned"
           /\ search.requested = 1
           /\ search.waits = 0

\* C20: when start_applying is over, a search has been started for every
\* pair of a configured position and a configured location, once for each.
C20_EveryPairSearched ==
    SearchOver =>
        \A i \in 1..Len(positions), j \in 1..Len(locations) :
            Cardinality({ k \in 1..Len(search.searched) :
                            search.searched[k] = <<positions[i], locations[j]>> }) = 1

\* C22: write_to_file keeps the records the named log holds, in their order,
\* adds the one record at the end, and leaves the two other logs as they are,
\* whether the named log was absent, a list, or unparsable.
C22_AppendOnly ==
    call.fn = "write_to_file" =>
        /\ call.after[call.file_name].data
               = Append(call.before[call.file_name].data, call.record)
        /\ \A n \in FileNames \ {call.file_name} : call.after[n] = call.before[n]

\* the checks of the filter in the order of the specification: blacklist
\* (title word, company, seen link), seen link again, company already applied
\* to, keyword match
FilterOrder ==
    <<"is_blacklisted", "is_already_applied_to_job",
      "is_already_applied_to_company", "matches_job_criteria">>

\* the check of that name rejects the job of the call
Rejects(name) ==
    CASE name = "is_blacklisted" ->
             \/ title_blacklisted(call.job.title, call.params.title_blacklist)
             \/ \E k \in 1..Len(call.params.company_blacklist) :
                    SameName(call.params.company_blacklist[k], call.job.company)
             \/ \E k \in 1..Len(call.seen_jobs) : call.seen_jobs[k] = call.job.link
      [] name = "is_already_applied_to_job" ->
             \E k \in 1..Len(call.seen_jobs) : call.seen_jobs[k] = call.job.link
      [] name = "is_already_applied_to_company" ->
             /\ call.params.apply_once_at_company
             /\ \E k \in 1..Len(call.files["success"].data) :
                    /\ call.files["success"].state = "list"
                    /\ SameName(call.files["success"].data[k].company,
                                call.job.company)
      [] OTHER ->
             /\ call.params.keywords # <<>>
             /\ keyword_hits(call.params.keywords, call.job) * 100
                    < call.params.match_threshold * Len(call.params.keywords)

\* C23: is_job_suitable calls its checks in the order blacklist, company
\* already applied to, keyword match; it stops at the first check that rejects
\* the job and returns false without calling a later one; the success log is
\* opened only by the company check and only when apply_once_at_company is set.
C23_ChecksInOrder ==
    call.fn = "is_job_suitable" =>
        /\ Len(call.checks) \in 1..Len(FilterOrder)
        /\ call.checks = SubSeq(FilterOrder, 1, Len(call.checks))
        /\ \A k \in 1..(Len(call.checks) - 1) : ~Rejects(call.checks[k])
        /\ Len(call.checks) < Len(FilterOrder) =>
               (Rejects(call.checks[Len(call.checks)]) /\ ~call.ret /\ ~call.raised)
        /\ (~call.raised /\ ~call.ret) => Rejects(call.checks[Len(call.checks)])
        /\ call.reads # <<>> =>
               /\ call.params.apply_once_at_company
               /\ Len(call.checks) >= 3

C23_Witness ==
    /\ call.fn = "is_job_suitable"
    /\ call.params.apply_once_at_company
    /\ call.files["success"].state = "list"
    /\ call.checks = <<"is_blacklisted">>
    /\ call.reads = <<>>
    /\ Rejects("is_already_applied_to_company")
    /\ Rejects("matches_job_criteria")

\* the attempt made last has failed
LastAttemptFailed == cur.attempts > 0 /\ cur.failures = cur.attempts

\* C25: on every failed apply attempt, wherever it fails, the discard sequence
\* is the last thing attempted before the error reaches the retry loop.
C25_DiscardOnEveryFailure ==
    LastAttemptFailed => cur.last[Len(cur.last)] = "discard_application"

\* C26: whichever of the two interactions of the discard sequence fails, the
\* other one is still attempted, and _discard_application does not raise.
C26_DiscardIndependent ==
    call.fn = "discard_application" =>
        /\ call.attempted = <<"dismiss", "confirm">>
        /\ ~call.raised

\* the positions of the event in the events of the call
At(event) == { k \in 1..Len(call.events) : call.events[k] = event }

\* the search methods that give a usable element in that pass
Usable(pass) == { m \in 1..Len(search_methods) : call.page[pass][m] }

\* C29: unless a premium check raises, _find_easy_apply_button makes at most
\* two passes over the search methods in the order class, aria-label, text,
\* and returns the element of the first method of the first pass that gives
\* one; the page is reloaded once, after the three methods of the first pass
\* and before the second pass; when neither pass gives an element it takes
\* the page source and raises.
C29_FindButtonPasses ==
    (call.fn = "find_easy_apply_button" /\ call.error # "premium") =>
        /\ \A m \in 1..Len(search_methods) :
               Cardinality(At(search_methods[m])) <= 2
        /\ Cardinality(At("refresh")) <= 1
        /\ (Usable(1) # {}) =>
               /\ call.error = "none"
               /\ call.ret[1] = 1
               /\ call.ret[2] \in Usable(1)
               /\ \A m \in Usable(1) : call.ret[2] <= m
               /\ call.events = SubSeq(search_methods, 1, call.ret[2])
        /\ (Usable(1) = {} /\ Usable(2) # {}) =>
               /\ call.error = "none"
               /\ call.ret[1] = 2
               /\ call.ret[2] \in Usable(2)
               /\ \A m \in Usable(2) : call.ret[2] <= m
               /\ call.events = search_methods \o <<"refresh">>
                                    \o SubSeq(search_methods, 1, call.ret[2])
        /\ (Usable(1) = {} /\ Usable(2) = {}) =>
               /\ call.error = "no_button"
               /\ call.events = search_methods \o <<"refresh">> \o search_methods
                                    \o <<"page_source">>

C29_Witness ==
    /\ call.fn = "find_easy_apply_button"
    /\ Usable(1) = {}
    /\ Usable(2) = {2, 3}
    /\ call.ret = <<2, 2>>
    /\ At("refresh") = {4}

\* the filler of the first probe that matches, in the order file upload,
\* dropdown, free text, single choice
FillerByPriority(kinds) ==
    IF "file_input" \in kinds THEN "handle_upload_fields"
    ELSE IF "select" \in kinds THEN "handle_dropdown_fields"
    ELSE IF kinds \cap {"text_input", "textarea"} # {} THEN "handle_text_fields"
    ELSE IF "radio_input" \in kinds THEN "handle_radio_fields"
    ELSE "none"

\* C30: a form section goes to the filler of the first probe that matches, in
\* the order file upload, dropdown, free text, single choice; a section whose
\* inputs are radio buttons goes to the single-choice filler.
C30_DispatchByPriority ==
    (/\ call.fn = "process_form_element"
     /\ call.section.has_label
     /\ call.section.text_says_upload = ("file_input" \in call.section.kinds))
        => call.filler = FillerByPriority(call.section.kinds)

\* the five required fields of a Job object
RequiredFields(obj) ==
    <<obj.title, obj.company, obj.location, obj.link, obj.apply_method>>

\* the fields of the two objects that differ
Changed(a, b) == { f \in DOMAIN a : a[f] # b[f] }

\* C21: the constructor gives a Job exactly when none of the five required
\* fields is empty and raises otherwise; a setter changes no field but its
\* own, so the required fields of a Job are those it was built with, none
\* empty, as long as it lives.
C21_RequiredFieldsKept ==
    [][/\ new_job.state = "none" =>
              /\ new_job'.state \in {"built", "raised"}
              /\ (new_job'.state = "built")
                     = (\A k \in 1..5 : new_job'.args[k] # <<>>)
              /\ new_job'.state = "built" =>
                     RequiredFields(new_job'.obj) = new_job'.args
       /\ new_job.state = "built" =>
              /\ new_job'.state = "built"
              /\ RequiredFields(new_job'.obj) = RequiredFields(new_job.obj)
              /\ \A k \in 1..5 : RequiredFields(new_job'.obj)[k] # <<>>
              /\ Changed(new_job.obj, new_job'.obj) \in
                     SUBSET {"description"} \cup SUBSET {"recruiter_link"}
                         \cup SUBSET {"summarize_job_description"}
       /\ new_job.state = "raised" => new_job'.state = "raised"]_vars

C21_Witness ==
    /\ new_job.state = "built"
    /\ new_job.calls = 2
    /\ new_job.obj.description = <<"b">>
    /\ new_job.obj.recruiter_link = <<"b">>
    /\ new_job.obj.title = <<" ">>

\* the loop of _fill_application_form is over
FillOver == fill.state \in {"SUBMITTED", "ABORTED"}

\* C24: whatever pages the wizard shows, the fill/advance loop eventually
\* ends, in SUBMITTED or in ABORTED.
C24_FillTerminates == <>FillOver

\* the primary control of the page says that the click submits the application
FinalLabel(page) == page.button_text = s_Submit_application

\* the primary control of the page is there and leads to a next section
AdvanceLabel(page) == page.button_text = s_Next

\* C27: after every click on a primary control that is not the final one the
\* error indicators are checked; with one or more present the attempt is
\* aborted with an error carrying the texts of all of them, with none present
\* the loop goes on with the next section.
C27_ErrorsAbortAfterAdvance ==
    [][(/\ fill.state = "FILLING"
        /\ AdvanceLabel(wizard[fill.pos])
        /\ wizard[fill.pos].click_ok)
           => /\ fill'.events = <<"fill_up", "find_element", "click", "check_for_errors">>
              /\ IF wizard[fill.pos].errors # <<>>
                 THEN /\ fill'.state = "ABORTED"
                      /\ fill'.error.texts = wizard[fill.pos].errors
                 ELSE /\ fill'.state = "FILLING"
                      /\ fill'.pos # fill.pos]_vars

C27_Witness ==
    /\ fill.state = "ABORTED"
    /\ fill.pos = 2
    /\ fill.error = [kind |-> "form_errors", texts |-> <<"e1", "e2">>]

\* C28: when the primary control says submit, the follow-company deselect is
\* attempted before the click, the click is made whether the deselect went
\* through or not, and after the click the attempt is in SUBMITTED.
C28_UnfollowThenSubmit ==
    [][(fill.state = "FILLING" /\ FinalLabel(wizard[fill.pos]))
           => /\ fill'.events = <<"fill_up", "find_element", "unfollow_company", "click">>
              /\ wizard[fill.pos].click_ok => fill'.state = "SUBMITTED"
              /\ ~wizard[fill.pos].click_ok => fill'.state = "ABORTED"]_vars

C28_Witness ==
    /\ fill.state = "SUBMITTED"
    /\ ~wizard[fill.pos].unfollow_ok
    /\ fill.events = <<"fill_up", "find_element", "unfollow_company", "click">>

\* C31: a section that is not filled (its filling fails, it is not
\* recognized, it is an upload section without a resume or without a file
\* input) leaves fill_up running: every section of the step is processed
\* and fill_up does not raise.
C31_SectionFailureNonFatal ==
    (call.fn = "fill_up" /\ call.content_found)
        => /\ ~call.result.raised
           /\ DOMAIN call.result.processed = 1..Len(call.sections)

\* the operator answered 'y' at the prompt
OperatorSkips(typed) == typed \in {<<"y">>, <<"Y", " ">>}

\* C32: the wait between two results pages lasts the whole chosen duration
\* unless the operator answers 'y': without that answer at least wait_time
\* seconds pass before the next page is requested.
C32_FullWaitWithoutSignal ==
    (call.fn = "handle_waiting" /\ ~OperatorSkips(call.typed))
        => call.result.slept >= call.wait_time

\* C33: an error met on a results page does not end the session:
\* start_applying catches it, does not raise, and goes on to the searches of
\* the pairs that are left, so that in the end every pair was searched.
C33_PageErrorRecoverable ==
    (SearchOver /\ search.error # "none")
        => /\ search.pc = "returned"
           /\ Len(search.searched) = Len(search.searches)

\* the log holds a record of a company of this name
RecordOf(company, file) ==
    /\ file.state = "list"
    /\ \E k \in 1..Len(file.data) : SameName(file.data[k].company, company)

\* C34: the already-applied-to-company check rejects a company only when
\* apply_once_at_company is set and the success log holds a record of it;
\* records of the failed and skipped logs never make it reject.
C34_OnlySuccessBlocks ==
    (call.fn = "is_already_applied_to_company" /\ call.ret)
        => /\ call.apply_once_at_company
           /\ RecordOf(call.company, call.files["success"])

C34_Witness ==
    /\ call.fn = "is_already_applied_to_company"
    /\ call.apply_once_at_company
    /\ call.company = s_ACME
    /\ RecordOf(call.company, call.files["failed"])
    /\ RecordOf(call.company, call.files["skipped"])
    /\ call.files["success"] = ListFile(<<>>)
    /\ ~call.ret

\* the records this step writes for the job at hand
NewWrites == { wlog'[k] : k \in (Len(wlog) + 1)..Len(wlog') }

TitleHits(keywords, title) ==
    Cardinality({ i \in 1..Len(keywords) : Occurs(keywords[i], title) })

\* C36: whenever the filter is about to evaluate a job, the description of
\* that job is the empty string, so that the keyword check counts the
\* keywords found in the title alone.
C36_FilterSeesNoDescription ==
    (pc = "filter" /\ idx \in 1..Len(job_list))
        => /\ job_list[idx].description = <<>>
           /\ keyword_hits(params.keywords, job_list[idx])
                  = TitleHits(params.keywords, job_list[idx].title)

C36_Witness ==
    /\ pc = "filter"
    /\ idx = 2
    /\ Len(job_list) = 2
    /\ job_list[1].description = s_desc
    /\ params.keywords # <<>>
    /\ job_list[2].description = <<>>

\* the apply methods of jobs that are not applied to
Unapplied == {s_Continue, s_Applied, s_Apply}

\* the filter passed job i and its tile offers a method to apply with
Applicable(i) ==
    /\ cur.idx = i
    /\ cur.suitable = "true"
    /\ job_list[i].apply_method \notin Unapplied
    /\ job_list_elements[i].apply_method # NoSuchElement

\* C37: an apply attempt is started or has been made for a job only when the
\* filter passed it and its apply_method is none of "Continue", "Applied",
\* "Apply"; the job of a tile without an apply-method element has the method
\* "Applied" and is never applied to.
C37_ApplyOnlyWhenApplicable ==
    /\ pc = "apply" => Applicable(idx)
    /\ cur.attempts > 0 => Applicable(cur.idx)
    /\ \A i \in 1..Len(job_list) :
           job_list_elements[i].apply_method = NoSuchElement
               => /\ job_list[i].apply_method = s_Applied
                  /\ \A k \in 1..Len(wlog) :
                         wlog[k][1] = i => wlog[k][2] = "skipped"

C37_Witness ==
    /\ pc = "returned"
    /\ cur.suitable = "true"
    /\ cur.result = "not_applied"
    /\ job_list_elements[cur.idx].apply_method = NoSuchElement
    /\ cur.attempts = 0
    /\ wlog = <<>>

\* apply_jobs is over
ApplyJobsOver == pc \in {"returned", "raised"}

\* the title, the link, the company and the location of the tile are there
Extractable(tile) ==
    /\ tile.title # NoSuchElement
    /\ tile.company # NoSuchElement
    /\ tile.location # NoSuchElement

\* C38: a tile whose title, company, link or location cannot be extracted
\* does not stop the page: when apply_jobs is over, every other tile of the
\* page has been turned into a job and the filter has evaluated the last of
\* them.
C38_BadTileSkipped ==
    (ApplyJobsOver /\ \E i \in 1..Len(job_list_elements) :
                          ~Extractable(job_list_elements[i]))
        => \A i \in 1..Len(job_list_elements) :
               Extractable(job_list_elements[i])
                   => /\ \E k \in 1..Len(job_list) :
                             job_list[k].title = job_list_elements[i].title
                      /\ cur.idx > 0

\* the four flags start_apply asks for
ReadyToApply(state) ==
    /\ state.logged_in
    /\ state.job_application_profile_set
    /\ state.gpt_answerer_set
    /\ state.parameters_set

\* the step is a call of the facade operation of this name
Calls(name) == bot'.n = bot.n + 1 /\ bot'.op = name

\* C39: in every sequence of facade operations start_applying is invoked
\* only when logged_in, job_application_profile_set, gpt_answerer_set and
\* parameters_set are all true, start_apply raises without invoking it
\* otherwise, and logged_in is true only if the last start_login saw the
\* authenticator's start return true.
C39_ApplyOnlyWhenReady ==
    [][/\ bot'.invoked # bot.invoked => Calls("start_apply") /\ ReadyToApply(bot.state)
       /\ (Calls("start_apply") /\ ~ReadyToApply(bot.state))
              => bot'.raised /\ bot'.invoked = bot.invoked
       /\ bot'.state.logged_in => bot'.login = "true"]_vars

C39_Witness ==
    /\ bot.op = "start_apply"
    /\ bot.invoked = 1
    /\ bot.n = 5
    /\ bot.login = "true"

====
